---- MODULE Spec2Model ----
(***************************************************************************)
(* A model of the Snowflake developer kit's DML path: the request pipeline *)
(* (four middleware around every tool call), the DML tools, the DMLManager *)
(* statement builders and executor, and the connection utility.            *)
(*                                                                         *)
(* Text is a sequence of pieces.  A piece is either one character of an    *)
(* argument (a string of length 1) or one literal segment of an f-string   *)
(* of the source (a longer string, or punctuation the arguments' alphabet  *)
(* does not hold).  Concatenating the pieces gives the text the code       *)
(* builds.                                                                 *)
(***************************************************************************)
EXTENDS Integers, Sequences, FiniteSets, TLC

(***************************************************************************)
(* Bounds of the model.                                                    *)
(***************************************************************************)
NumInvocations == 2
MaxName == 5
MaxWhere == 2
MaxCols == 2
MaxActions == 2

Invocations == 1..NumInvocations

(***************************************************************************)
(* Text helpers: Python's str.split, str.strip, str.join and truthiness.   *)
(***************************************************************************)
RECURSIVE SeqsUpTo(_, _)
SeqsUpTo(S, n) ==
  IF n = 0 THEN {<<>>}
  ELSE LET shorter == SeqsUpTo(S, n - 1)
       IN  shorter \cup {Append(s, c) : s \in {t \in shorter : Len(t) = n - 1}, c \in S}

\* str.split(sep): the parts between the separators, one more than the separators.
RECURSIVE SplitFrom(_, _, _, _)
SplitFrom(s, sep, k, cur) ==
  IF k > Len(s) THEN <<cur>>
  ELSE IF s[k] = sep THEN <<cur>> \o SplitFrom(s, sep, k + 1, <<>>)
  ELSE SplitFrom(s, sep, k + 1, Append(cur, s[k]))

split(s, sep) == SplitFrom(s, sep, 1, <<>>)

IsSpace(c) == c = " "

\* str.strip(): leading and trailing whitespace removed.
RECURSIVE lstrip(_)
lstrip(s) == IF s # <<>> /\ IsSpace(Head(s)) THEN lstrip(Tail(s)) ELSE s

RECURSIVE rstrip(_)
rstrip(s) ==
  IF s # <<>> /\ IsSpace(s[Len(s)]) THEN rstrip(SubSeq(s, 1, Len(s) - 1)) ELSE s

strip(s) == rstrip(lstrip(s))

\* sep.join(items): items is a sequence of texts, sep a sequence of pieces.
RECURSIVE join(_, _)
join(sep, items) ==
  IF items = <<>> THEN <<>>
  ELSE IF Len(items) = 1 THEN items[1]
  ELSE items[1] \o sep \o join(sep, Tail(items))

\* The number of pieces of s that satisfy being equal to p.
RECURSIVE Count(_, _)
Count(s, p) ==
  IF s = <<>> THEN 0 ELSE (IF Head(s) = p THEN 1 ELSE 0) + Count(Tail(s), p)

\* Whether text sub occurs in text s as a contiguous run of pieces.
Contains(s, sub) ==
  \E k \in 0..(Len(s) - Len(sub)) : SubSeq(s, k + 1, k + Len(sub)) = sub

UpperCase ==
  <<"A","B","C","D","E","F","G","H","I","J","K","L","M",
    "N","O","P","Q","R","S","T","U","V","W","X","Y","Z">>

LowerCase ==
  <<"a","b","c","d","e","f","g","h","i","j","k","l","m",
    "n","o","p","q","r","s","t","u","v","w","x","y","z">>

\* str.lower() of one character.
lower_char(c) ==
  IF \E k \in DOMAIN UpperCase : UpperCase[k] = c
  THEN LowerCase[CHOOSE k \in DOMAIN UpperCase : UpperCase[k] = c]
  ELSE c

lower(s) == [k \in DOMAIN s |-> lower_char(s[k])]

(***************************************************************************)
(* Values of a column: None, int, float, bool or str, as Python holds them.*)
(***************************************************************************)
NoneVal == [t |-> "none"]
IntVal(n) == [t |-> "int", v |-> n]
BoolVal(b) == [t |-> "bool", v |-> b]
FloatVal(w, f) == [t |-> "float", w |-> w, f |-> f]
StrVal(s) == [t |-> "str", v |-> s]

Digit(d) == <<"0", "1", "2", "3", "4", "5", "6", "7", "8", "9">>[d + 1]

RECURSIVE NatText(_)
NatText(n) == IF n < 10 THEN <<Digit(n)>> ELSE Append(NatText(n \div 10), Digit(n % 10))

\* str(n) of an int.
IntText(n) == IF n < 0 THEN <<"-">> \o NatText(-n) ELSE NatText(n)

\* str(val): the text Python gives a value.
str(val) ==
  CASE val.t = "none" -> <<"N", "o", "n", "e">>
    [] val.t = "int" -> IntText(val.v)
    [] val.t = "float" -> IntText(val.w) \o <<".">> \o NatText(val.f)
    [] val.t = "bool" -> IF val.v THEN <<"T", "r", "u", "e">> ELSE <<"F", "a", "l", "s", "e">>
    [] val.t = "str" -> val.v

\* isinstance(val, (int, float)): bool is a subclass of int.
isinstance_int_float(val) == val.t \in {"int", "float", "bool"}

isinstance_bool(val) == val.t = "bool"

\* The value formatting of insert_data doubling the quotes inside a text.
insert_format_escaping(val) ==
  IF val.t = "none" THEN <<"NULL">>
  ELSE IF isinstance_int_float(val) THEN str(val)
  ELSE IF isinstance_bool(val) THEN (IF val.v THEN <<"TRUE">> ELSE <<"FALSE">>)
  ELSE <<"'">> \o join(<<"'", "'">>, split(str(val), "'")) \o <<"'">>

\* The value formatting of DMLManager.insert_data.
insert_format(val) ==
  IF val.t = "none" THEN <<"NULL">>
  ELSE IF isinstance_int_float(val) THEN str(val)
  ELSE IF isinstance_bool(val) THEN (IF val.v THEN <<"TRUE">> ELSE <<"FALSE">>)
  ELSE <<"'">> \o str(val) \o <<"'">>

\* The SET clause formatting of DMLManager.update_data.
update_set_clause(col, val) ==
  IF val.t = "none" THEN col \o <<" = NULL">>
  ELSE IF isinstance_int_float(val) THEN col \o <<" = ">> \o str(val)
  ELSE IF isinstance_bool(val) THEN col \o <<" = ">> \o (IF val.v THEN <<"TRUE">> ELSE <<"FALSE">>)
  ELSE col \o <<" = '">> \o str(val) \o <<"'">>

\* The SET clause formatting of a merge writing a number between quotes.
merge_set_clause_quoting_numbers(col, val) ==
  IF val.t = "none" THEN col \o <<" = NULL">>
  ELSE IF isinstance_bool(val) THEN col \o <<" = ">> \o (IF val.v THEN <<"TRUE">> ELSE <<"FALSE">>)
  ELSE col \o <<" = '">> \o str(val) \o <<"'">>

\* The SET clause formatting of a WHEN MATCHED UPDATE action of merge_data.
merge_set_clause(col, val) ==
  IF val.t = "none" THEN col \o <<" = NULL">>
  ELSE IF isinstance_int_float(val) THEN col \o <<" = ">> \o str(val)
  ELSE IF isinstance_bool(val) THEN col \o <<" = ">> \o (IF val.v THEN <<"TRUE">> ELSE <<"FALSE">>)
  ELSE col \o <<" = '">> \o str(val) \o <<"'">>

\* The value formatting of a WHEN NOT MATCHED INSERT action of merge_data.
merge_insert_format(val) ==
  IF val.t = "none" THEN <<"NULL">>
  ELSE IF isinstance_int_float(val) THEN str(val)
  ELSE IF isinstance_bool(val) THEN (IF val.v THEN <<"TRUE">> ELSE <<"FALSE">>)
  ELSE <<"'">> \o str(val) \o <<"'">>

\* zip(columns, values): pairs up to the shorter length.
Min(a, b) == IF a < b THEN a ELSE b

(***************************************************************************)
(* Exceptions (core/exceptions.py).                                        *)
(***************************************************************************)
NoExc == [cls |-> "none"]

DMLException(message, operation, table_name) ==
  [cls |-> "DMLException", tool |-> <<"DML Manager">>, message |-> message,
   operation |-> operation, table_name |-> table_name]

DDLException(message, operation, ddl_statement) ==
  [cls |-> "DDLException", tool |-> <<"DDL Manager">>, message |-> message,
   operation |-> operation, ddl_statement |-> ddl_statement]

OperationsException(message, operation, object_name) ==
  [cls |-> "OperationsException", tool |-> <<"Operations Manager">>, message |-> message,
   operation |-> operation, object_name |-> object_name]

ConnectionException(message) ==
  [cls |-> "ConnectionException", tool |-> <<"Connection Manager">>, message |-> message]

MissingArgumentsException(missing) ==
  [cls |-> "MissingArgumentsException", missing |-> missing]

ValidationException(message, field_name, provided_value) ==
  [cls |-> "ValidationException", message |-> message, field_name |-> field_name,
   provided_value |-> provided_value]

\* An exception of the driver or of the response model: no class of this package.
OtherException(message) == [cls |-> "Exception", message |-> message]

ToolError(message) == [cls |-> "ToolError", message |-> message]

IsSnowflakeException(e) ==
  e.cls \in {"DMLException", "ConnectionException", "DDLException", "OperationsException"}

\* str(e).
exc_str(e) ==
  CASE IsSnowflakeException(e) -> e.tool \o <<" Error: ">> \o e.message
    [] e.cls = "ValidationException" ->
         <<"Validation Error in '">> \o <<e.field_name>> \o <<"': ">> \o e.message
    [] e.cls = "MissingArgumentsException" ->
         <<"Required arguments missing:">> \o join(<<"\n\t\t">>, [k \in DOMAIN e.missing |-> <<"--", e.missing[k]>>])
    [] OTHER -> e.message

\* What a call gives: a value returned or an exception raised.
Returned(v) == [raised |-> FALSE, value |-> v, exc |-> NoExc]
Raised(e) == [raised |-> TRUE, value |-> <<>>, exc |-> e]


(***************************************************************************)
(* The driver: what a connection's cursor does with one statement is the   *)
(* environment's choice.  drv.fail names the call that raises, if any;     *)
(* drv.rows are the rows fetchall gives (each a sequence of ints) and      *)
(* drv.rowcount is cursor.rowcount: <<n>>, or <<>> when the driver has     *)
(* none (None).                                                            *)
(***************************************************************************)
DriverMsg == <<"b", "o", "o", "m">>

\* str(row) of a fetched tuple.
row_str(row) ==
  <<"(">> \o join(<<",", " ">>, [k \in DOMAIN row |-> IntText(row[k])])
          \o (IF Len(row) = 1 THEN <<",">> ELSE <<>>) \o <<")">>

\* One call made on a connection, as a connection stub records it.
ConnCall(op, sql) == [op |-> op, sql |-> sql]

Stepped(calls, out) == [calls |-> calls, out |-> out]

(***************************************************************************)
(* DMLManager (helpers/dml_manager.py).  Every method takes the calls made *)
(* so far on the manager's connection and gives the calls after it and     *)
(* what it returned or raised.                                             *)
(***************************************************************************)
SuccessMessage == <<"DML operation executed successfully">>

\* execute_dml issuing the statement a second time when execute raises.
execute_dml_retrying(calls, dml, drv) ==
  LET c1 == Append(calls, ConnCall("cursor", <<>>))
      c2 == Append(c1, ConnCall("execute", dml))
      c3 == Append(c2, ConnCall("fetchall", <<>>))
      err == Raised(DMLException(<<"Error executing DML: ">> \o DriverMsg, "EXECUTE", dml))
  IN  CASE drv.fail = "cursor" -> Stepped(c1, err)
        [] drv.fail = "execute" -> Stepped(Append(c2, ConnCall("execute", dml)), err)
        [] drv.fail = "fetchall" -> Stepped(c3, err)
        [] OTHER ->
             Stepped(c3, Returned([success |-> TRUE,
                                   message |-> <<"DML operation executed successfully">>,
                                   results |-> [k \in DOMAIN drv.rows |-> row_str(drv.rows[k])],
                                   rows_affected |-> drv.rowcount]))

\* execute_dml returning a result with success = FALSE in place of raising.
execute_dml_reporting_failure(calls, dml, drv) ==
  LET c1 == Append(calls, ConnCall("cursor", <<>>))
      c2 == Append(c1, ConnCall("execute", dml))
      c3 == Append(c2, ConnCall("fetchall", <<>>))
      err == Returned([success |-> FALSE,
                       message |-> <<"Error executing DML: ">> \o DriverMsg,
                       results |-> <<>>, rows_affected |-> <<0>>])
  IN  CASE drv.fail = "cursor" -> Stepped(c1, err)
        [] drv.fail = "execute" -> Stepped(c2, err)
        [] drv.fail = "fetchall" -> Stepped(c3, err)
        [] OTHER ->
             Stepped(c3, Returned([success |-> TRUE,
                                   message |-> SuccessMessage,
                                   results |-> [k \in DOMAIN drv.rows |-> row_str(drv.rows[k])],
                                   rows_affected |-> drv.rowcount]))

execute_dml(calls, dml, drv) ==
  LET c1 == Append(calls, ConnCall("cursor", <<>>))
      c2 == Append(c1, ConnCall("execute", dml))
      c3 == Append(c2, ConnCall("fetchall", <<>>))
      err == Raised(DMLException(<<"Error executing DML: ">> \o DriverMsg, "EXECUTE", dml))
  IN  CASE drv.fail = "cursor" -> Stepped(c1, err)
        [] drv.fail = "execute" -> Stepped(c2, err)
        [] drv.fail = "fetchall" -> Stepped(c3, err)
        [] OTHER ->
             Stepped(c3, Returned([success |-> TRUE,
                                   message |-> SuccessMessage,
                                   results |-> [k \in DOMAIN drv.rows |-> row_str(drv.rows[k])],
                                   rows_affected |-> drv.rowcount]))

NotQualifiedMessage == <<"Table name must be fully qualified as 'database.schema.table'">>

MismatchMessage == <<"Number of columns does not match number of values">>

\* select_data testing  if limit:  and  if offset:  in place of  is not None.
select_dml_dropping_zero(table_name, columns, where_clause, order_by, limit, offset) ==
  <<"SELECT ">> \o (IF columns = <<>> THEN <<"*">> ELSE join(<<", ">>, columns))
     \o <<" FROM ">> \o table_name
     \o (IF where_clause # <<>> THEN <<" WHERE ">> \o where_clause ELSE <<>>)
     \o (IF order_by # <<>> THEN <<" ORDER BY ">> \o join(<<", ">>, order_by) ELSE <<>>)
     \o (IF limit # <<>> /\ limit # <<0>> THEN <<" LIMIT ">> \o IntText(limit[1]) ELSE <<>>)
     \o (IF offset # <<>> /\ offset # <<0>> THEN <<" OFFSET ">> \o IntText(offset[1]) ELSE <<>>)

\* The statement text select_data assembles.
select_dml(table_name, columns, where_clause, order_by, limit, offset) ==
  <<"SELECT ">> \o (IF columns = <<>> THEN <<"*">> ELSE join(<<", ">>, columns))
     \o <<" FROM ">> \o table_name
     \o (IF where_clause # <<>> THEN <<" WHERE ">> \o where_clause ELSE <<>>)
     \o (IF order_by # <<>> THEN <<" ORDER BY ">> \o join(<<", ">>, order_by) ELSE <<>>)
     \o (IF limit # <<>> THEN <<" LIMIT ">> \o IntText(limit[1]) ELSE <<>>)
     \o (IF offset # <<>> THEN <<" OFFSET ">> \o IntText(offset[1]) ELSE <<>>)

DMLManager_select_data(calls, table_name, columns, where_clause, order_by, limit, offset, drv) ==
  IF Len(split(table_name, ".")) # 3
  THEN Stepped(calls, Raised(DMLException(NotQualifiedMessage, "SELECT", table_name)))
  ELSE execute_dml(calls, select_dml(table_name, columns, where_clause, order_by, limit, offset), drv)

\* The statement text insert_data assembles.
insert_dml(table_name, columns, values) ==
  <<"\n        INSERT INTO ">> \o table_name \o <<" (">> \o join(<<", ">>, columns) \o <<")">>
     \o <<"\n        VALUES (">>
     \o join(<<", ">>, [k \in DOMAIN values |-> insert_format(values[k])])
     \o <<")">> \o <<"\n        ">>

\* insert_data handing its statement to execute_dml without comparing the
\* lengths of columns and values.
DMLManager_insert_data_unmatched(calls, table_name, columns, values, drv) ==
  IF Len(split(table_name, ".")) # 3
  THEN Stepped(calls, Raised(DMLException(NotQualifiedMessage, "INSERT", table_name)))
  ELSE execute_dml(calls, insert_dml(table_name, columns, values), drv)

DMLManager_insert_data(calls, table_name, columns, values, drv) ==
  IF Len(split(table_name, ".")) # 3
  THEN Stepped(calls, Raised(DMLException(NotQualifiedMessage, "INSERT", table_name)))
  ELSE IF Len(columns) # Len(values)
  THEN Stepped(calls, Raised(DMLException(MismatchMessage, "INSERT", table_name)))
  ELSE execute_dml(calls, insert_dml(table_name, columns, values), drv)

\* The statement text update_data assembles.
update_dml(table_name, set_columns, set_values, where_clause) ==
  <<"\n        UPDATE ">> \o table_name
     \o <<"\n        SET ">>
     \o join(<<", ">>, [k \in 1..Min(Len(set_columns), Len(set_values)) |->
                          update_set_clause(set_columns[k], set_values[k])])
     \o <<"\n        WHERE ">> \o where_clause \o <<"\n        ">>

\* update_data without the check of the table name.
DMLManager_update_data_unchecked(calls, table_name, set_columns, set_values, where_clause, drv) ==
  IF Len(set_columns) # Len(set_values)
  THEN Stepped(calls, Raised(DMLException(MismatchMessage, "UPDATE", table_name)))
  ELSE execute_dml(calls, update_dml(table_name, set_columns, set_values, where_clause), drv)

\* update_data refusing an empty or blank where_clause as delete_data does.
DMLManager_update_data_requiring_where(calls, table_name, set_columns, set_values, where_clause, drv) ==
  IF Len(split(table_name, ".")) # 3
  THEN Stepped(calls, Raised(DMLException(NotQualifiedMessage, "UPDATE", table_name)))
  ELSE IF Len(set_columns) # Len(set_values)
  THEN Stepped(calls, Raised(DMLException(MismatchMessage, "UPDATE", table_name)))
  ELSE IF where_clause = <<>> \/ strip(where_clause) = <<>>
  THEN Stepped(calls, Raised(DMLException(<<"WHERE clause is required">>, "UPDATE", table_name)))
  ELSE execute_dml(calls, update_dml(table_name, set_columns, set_values, where_clause), drv)

DMLManager_update_data(calls, table_name, set_columns, set_values, where_clause, drv) ==
  IF Len(split(table_name, ".")) # 3
  THEN Stepped(calls, Raised(DMLException(NotQualifiedMessage, "UPDATE", table_name)))
  ELSE IF Len(set_columns) # Len(set_values)
  THEN Stepped(calls, Raised(DMLException(MismatchMessage, "UPDATE", table_name)))
  ELSE execute_dml(calls, update_dml(table_name, set_columns, set_values, where_clause), drv)

WhereRequiredMessage ==
  <<"WHERE clause is required for DELETE operations to prevent accidental data loss">>

\* The statement text delete_data assembles.
delete_dml(table_name, where_clause) ==
  <<"\n        DELETE FROM ">> \o table_name
     \o <<"\n        WHERE ">> \o where_clause \o <<"\n        ">>

\* The WHERE check without the strip: only  not where_clause.
delete_where_missing_unstripped(where_clause) == where_clause = <<>>

\* The WHERE check of DMLManager.delete_data: not where_clause or where_clause.strip() == "".
delete_where_missing(where_clause) == where_clause = <<>> \/ strip(where_clause) = <<>>

DMLManager_delete_data(calls, table_name, where_clause, drv) ==
  IF Len(split(table_name, ".")) # 3
  THEN Stepped(calls, Raised(DMLException(NotQualifiedMessage, "DELETE", table_name)))
  ELSE IF delete_where_missing(where_clause)
  THEN Stepped(calls, Raised(DMLException(WhereRequiredMessage, "DELETE", table_name)))
  ELSE execute_dml(calls, delete_dml(table_name, where_clause), drv)


(***************************************************************************)
(* DMLManager.merge_data.  An action is a record [action, columns, values] *)
(* (a DELETE entry carries empty lists).                                   *)
(***************************************************************************)
MergeAction(tag, columns, values) == [action |-> tag, columns |-> columns, values |-> values]

Built(bad, dml) == [bad |-> bad, dml |-> dml]

merge_header(target_table, source_table, merge_condition) ==
  <<"\n        MERGE INTO ">> \o target_table \o <<" AS target">>
     \o <<"\n        USING ">> \o source_table \o <<" AS source">>
     \o <<"\n        ON ">> \o merge_condition \o <<"\n        ">>

\* The loop over match_actions leaving out the DELETE clauses.
RECURSIVE merge_matched_without_delete(_, _, _)
merge_matched_without_delete(match_actions, k, dml) ==
  IF k > Len(match_actions) THEN Built(FALSE, dml)
  ELSE LET action == match_actions[k]
       IN  IF action.action = "UPDATE"
           THEN IF Len(action.columns) # Len(action.values)
                THEN Built(TRUE, dml)
                ELSE merge_matched_without_delete(match_actions, k + 1,
                       dml \o <<"\nWHEN MATCHED THEN UPDATE SET ">>
                           \o join(<<", ">>, [j \in DOMAIN action.columns |->
                                   merge_set_clause(action.columns[j], action.values[j])]))
           ELSE merge_matched_without_delete(match_actions, k + 1, dml)

\* The loop over match_actions raising on an action that is neither UPDATE
\* nor DELETE.
RECURSIVE merge_matched_rejecting_unknown(_, _, _)
merge_matched_rejecting_unknown(match_actions, k, dml) ==
  IF k > Len(match_actions) THEN Built(FALSE, dml)
  ELSE LET action == match_actions[k]
       IN  IF action.action = "UPDATE"
           THEN IF Len(action.columns) # Len(action.values)
                THEN Built(TRUE, dml)
                ELSE merge_matched_rejecting_unknown(match_actions, k + 1,
                       dml \o <<"\nWHEN MATCHED THEN UPDATE SET ">>
                           \o join(<<", ">>, [j \in DOMAIN action.columns |->
                                   merge_set_clause(action.columns[j], action.values[j])]))
           ELSE IF action.action = "DELETE"
           THEN merge_matched_rejecting_unknown(match_actions, k + 1,
                                                dml \o <<"\nWHEN MATCHED THEN DELETE">>)
           ELSE Built(TRUE, dml)

\* The loop over match_actions: the text after it, or bad when an UPDATE
\* action's lists differ in length (the loop raises there).
RECURSIVE merge_matched(_, _, _)
merge_matched(match_actions, k, dml) ==
  IF k > Len(match_actions) THEN Built(FALSE, dml)
  ELSE LET action == match_actions[k]
       IN  IF action.action = "UPDATE"
           THEN IF Len(action.columns) # Len(action.values)
                THEN Built(TRUE, dml)
                ELSE merge_matched(match_actions, k + 1,
                       dml \o <<"\nWHEN MATCHED THEN UPDATE SET ">>
                           \o join(<<", ">>, [j \in DOMAIN action.columns |->
                                   merge_set_clause(action.columns[j], action.values[j])]))
           ELSE IF action.action = "DELETE"
           THEN merge_matched(match_actions, k + 1, dml \o <<"\nWHEN MATCHED THEN DELETE">>)
           ELSE merge_matched(match_actions, k + 1, dml)

\* The loop over not_match_actions.
RECURSIVE merge_not_matched(_, _, _)
merge_not_matched(not_match_actions, k, dml) ==
  IF k > Len(not_match_actions) THEN Built(FALSE, dml)
  ELSE LET action == not_match_actions[k]
       IN  IF action.action = "INSERT"
           THEN IF Len(action.columns) # Len(action.values)
                THEN Built(TRUE, dml)
                ELSE merge_not_matched(not_match_actions, k + 1,
                       dml \o <<"\nWHEN NOT MATCHED THEN INSERT (">>
                           \o join(<<", ">>, action.columns) \o <<") VALUES (">>
                           \o join(<<", ">>, [j \in DOMAIN action.values |->
                                   merge_insert_format(action.values[j])])
                           \o <<")">>)
           ELSE merge_not_matched(not_match_actions, k + 1, dml)

TargetNotQualifiedMessage ==
  <<"Target table name must be fully qualified as 'database.schema.table'">>

MatchedMismatchMessage ==
  <<"Number of columns does not match number of values in WHEN MATCHED UPDATE action">>

NotMatchedMismatchMessage ==
  <<"Number of columns does not match number of values in WHEN NOT MATCHED INSERT action">>

DMLManager_merge_data(calls, target_table, source_table, merge_condition, match_actions, not_match_actions, drv) ==
  IF Len(split(target_table, ".")) # 3
  THEN Stepped(calls, Raised(DMLException(TargetNotQualifiedMessage, "MERGE", target_table)))
  ELSE LET m == merge_matched(match_actions, 1,
                              merge_header(target_table, source_table, merge_condition))
           n == merge_not_matched(not_match_actions, 1, m.dml)
       IN  IF m.bad
           THEN Stepped(calls, Raised(DMLException(MatchedMismatchMessage, "MERGE", target_table)))
           ELSE IF n.bad
           THEN Stepped(calls, Raised(DMLException(NotMatchedMismatchMessage, "MERGE", target_table)))
           ELSE execute_dml(calls, n.dml, drv)


(***************************************************************************)
(* The connection utility (core/snowflake_utils.py).  The environment is   *)
(* a record of the four variables, each a text (<<>> when unset).          *)
(***************************************************************************)
\* Python's  a or b  on texts.
Or(a, b) == IF a # <<>> THEN a ELSE b

MissingAccount == "account_identifier (or SNOWFLAKE_ACCOUNT env var)"
MissingUser == "username (or SNOWFLAKE_USER env var)"
MissingPassword == "password (or SNOWFLAKE_PAT/SNOWFLAKE_PASSWORD env var)"

\* The list  missing  that get_snowflake_connection builds.
missing_credentials(account_identifier, username, password) ==
  (IF account_identifier = <<>> THEN <<MissingAccount>> ELSE <<>>)
    \o (IF username = <<>> THEN <<MissingUser>> ELSE <<>>)
    \o (IF password = <<>> THEN <<MissingPassword>> ELSE <<>>)

\* connected: whether the driver's connect was called; out: the connection
\* (here TRUE) returned, or the exception raised.
Connected(connected, out) == [connected |-> connected, out |-> out]

get_snowflake_connection(account_identifier, username, password, environ, installed, connect_ok) ==
  IF ~installed
  THEN Connected(FALSE, Raised(ConnectionException(
         <<"snowflake-connector-python is required but not installed">>)))
  ELSE LET account == Or(account_identifier, environ.SNOWFLAKE_ACCOUNT)
           user == Or(username, environ.SNOWFLAKE_USER)
           pass == Or(password, Or(environ.SNOWFLAKE_PAT, environ.SNOWFLAKE_PASSWORD))
           missing == missing_credentials(account, user, pass)
       IN  IF missing # <<>>
           THEN Connected(FALSE, Raised(MissingArgumentsException(missing)))
           ELSE IF connect_ok
           THEN Connected(TRUE, Returned(TRUE))
           ELSE Connected(TRUE, Raised(ConnectionException(
                  <<"Failed to establish Snowflake connection: ">> \o DriverMsg)))

\* DMLManager.__init__ letting the exception of the utility through as it is.
DMLManager_init_unwrapped(account_identifier, username, password, environ, installed, connect_ok) ==
  get_snowflake_connection(account_identifier, username, password, environ, installed, connect_ok)

\* DMLManager.__init__: the connection of the new manager, or DMLException.
DMLManager_init(account_identifier, username, password, environ, installed, connect_ok) ==
  LET got == get_snowflake_connection(account_identifier, username, password,
                                      environ, installed, connect_ok)
  IN  IF got.out.raised
      THEN Connected(got.connected, Raised(DMLException(
             <<"Failed to establish connection: ">> \o exc_str(got.out.exc), "CONNECTION", <<>>)))
      ELSE got

\* get_snowflake_credentials of the DML tools.
get_snowflake_credentials(environ) ==
  LET account_identifier == environ.SNOWFLAKE_ACCOUNT
      username == environ.SNOWFLAKE_USER
      pat == Or(environ.SNOWFLAKE_PAT, environ.SNOWFLAKE_PASSWORD)
  IN  IF account_identifier = <<>> \/ username = <<>> \/ pat = <<>>
      THEN Raised(ValidationException(
             <<"Missing required Snowflake credentials: ", "SNOWFLAKE_ACCOUNT", ", ",
               "SNOWFLAKE_USER", ", and ", "SNOWFLAKE_PAT/SNOWFLAKE_PASSWORD">>,
             "credentials", <<"environment">>))
      ELSE Returned(<<account_identifier, username, pat>>)

(***************************************************************************)
(* The DML response model (core/models.py, core/response_handlers.py).     *)
(***************************************************************************)
\* The parser writing 0 for a rows_affected that is no int.
parse_dml_response_lenient(response) ==
  Returned(<< <<"success", response.success>>, <<"message", response.message>>,
              <<"results", response.results>>,
              <<"rows_affected", IF response.rows_affected = <<>> THEN 0
                                 ELSE response.rows_affected[1]>> >>)

\* DMLResponse(**response).model_dump_json(): the fields in the model's
\* order, or a validation error when rows_affected is no int.
parse_dml_response(response) ==
  IF response.rows_affected = <<>>
  THEN Raised(OtherException(<<"1 validation error for DMLResponse">>))
  ELSE Returned(<< <<"success", response.success>>, <<"message", response.message>>,
                   <<"results", response.results>>,
                   <<"rows_affected", response.rows_affected[1]>> >>)


(***************************************************************************)
(* The three response models (core/models.py) and their parsers            *)
(* (core/response_handlers.py) on any response dict.  A response is a      *)
(* record of the four keys; a key the dict does not have holds Absent.     *)
(* The models are pydantic BaseModels with the default configuration:      *)
(* values are validated in lax mode, keys the model does not declare are   *)
(* ignored, and model_dump_json writes the declared fields in declaration  *)
(* order as compact JSON.                                                  *)
(***************************************************************************)
Absent == [t |-> "absent"]
ListVal(items) == [t |-> "list", v |-> items]
DictVal(pairs) == [t |-> "dict", v |-> pairs]

Valid(v) == [ok |-> TRUE, v |-> v]
Invalid == [ok |-> FALSE, v |-> <<>>]

BoolTrueTexts == { <<"1">>, <<"o","n">>, <<"t">>, <<"t","r","u","e">>, <<"y">>, <<"y","e","s">> }
BoolFalseTexts == { <<"0">>, <<"o","f","f">>, <<"f">>, <<"f","a","l","s","e">>, <<"n">>, <<"n","o">> }

\* A field annotated bool.
validate_bool(x) ==
  CASE x.t = "bool" -> Valid(x.v)
    [] x.t = "int" /\ x.v \in {0, 1} -> Valid(x.v = 1)
    [] x.t = "float" /\ x.f = 0 /\ x.w \in {0, 1} -> Valid(x.w = 1)
    [] x.t = "str" /\ lower(x.v) \in BoolTrueTexts -> Valid(TRUE)
    [] x.t = "str" /\ lower(x.v) \in BoolFalseTexts -> Valid(FALSE)
    [] OTHER -> Invalid

\* A field annotated str.
validate_str(x) == IF x.t = "str" THEN Valid(x.v) ELSE Invalid

IsDigit(c) == c \in {"0", "1", "2", "3", "4", "5", "6", "7", "8", "9"}

DigitValue(c) == CHOOSE d \in 0..9 : Digit(d) = c

\* int() of a text of digits.
RECURSIVE ParseNat(_)
ParseNat(s) ==
  IF s = <<>> THEN 0 ELSE 10 * ParseNat(SubSeq(s, 1, Len(s) - 1)) + DigitValue(s[Len(s)])

\* A field annotated int.
validate_int(x) ==
  CASE x.t = "int" -> Valid(x.v)
    [] x.t = "bool" -> Valid(IF x.v THEN 1 ELSE 0)
    [] x.t = "float" /\ x.f = 0 -> Valid(x.w)
    [] x.t = "str" /\ x.v # <<>> /\ \A k \in DOMAIN x.v : IsDigit(x.v[k]) -> Valid(ParseNat(x.v))
    [] OTHER -> Invalid

\* A field annotated List[str].
validate_list_str(x) ==
  IF x.t = "list" /\ \A k \in DOMAIN x.v : x.v[k].t = "str"
  THEN Valid([k \in DOMAIN x.v |-> x.v[k].v])
  ELSE Invalid

\* A field annotated Optional[Union[dict, list, str]] = None.
validate_optional_union(x) ==
  CASE x.t = "absent" -> Valid(NoneVal)
    [] x.t \in {"none", "dict", "list", "str"} -> Valid(x)
    [] OTHER -> Invalid

\* str(e) of pydantic's ValidationError starts with the number of errors.
ValidationError(n, model) ==
  OtherException(IntText(n) \o <<IF n = 1 THEN " validation error for " ELSE " validation errors for ">>
                   \o <<model>>)

Errors(fields) == Cardinality({k \in DOMAIN fields : ~fields[k].ok})

\* Absent for a field without a default is the error "Field required".
Required(validate(_), x) == IF x.t = "absent" THEN Invalid ELSE validate(x)

\* DDLResponse(**response)
DDLResponse(response) ==
  LET f == << Required(validate_bool, response.success),
              Required(validate_str, response.message),
              Required(validate_list_str, response.results) >>
  IN  IF Errors(f) > 0 THEN Raised(ValidationError(Errors(f), "DDLResponse"))
      ELSE Returned([success |-> f[1].v, message |-> f[2].v, results |-> f[3].v])

\* DMLResponse(**response)
DMLResponse(response) ==
  LET f == << Required(validate_bool, response.success),
              Required(validate_str, response.message),
              Required(validate_list_str, response.results),
              Required(validate_int, response.rows_affected) >>
  IN  IF Errors(f) > 0 THEN Raised(ValidationError(Errors(f), "DMLResponse"))
      ELSE Returned([success |-> f[1].v, message |-> f[2].v, results |-> f[3].v,
                     rows_affected |-> f[4].v])

\* SnowflakeOperationResponse(**response)
SnowflakeOperationResponse(response) ==
  LET f == << Required(validate_bool, response.success),
              Required(validate_str, response.message),
              validate_optional_union(response.results) >>
  IN  IF Errors(f) > 0 THEN Raised(ValidationError(Errors(f), "SnowflakeOperationResponse"))
      ELSE Returned([success |-> f[1].v, message |-> f[2].v, results |-> f[3].v])

\* JSON text of a bool, of a str (quote and backslash escaped) and of a
\* list of str.
json_bool(b) == IF b THEN <<"true">> ELSE <<"false">>

json_char(c) == IF c = "\"" THEN "\\\"" ELSE IF c = "\\" THEN "\\\\" ELSE c

json_str(text) == <<"\"">> \o [k \in DOMAIN text |-> json_char(text[k])] \o <<"\"">>

json_list_str(items) ==
  <<"[">> \o join(<<",">>, [k \in DOMAIN items |-> json_str(items[k])]) \o <<"]">>

\* JSON text of a value of Optional[Union[dict, list, str]]: the items of a
\* list and the values of a dict are values of columns.
json_scalar(x) ==
  CASE x.t = "none" -> <<"null">>
    [] x.t = "bool" -> json_bool(x.v)
    [] x.t = "int" -> IntText(x.v)
    [] x.t = "float" -> IntText(x.w) \o <<".">> \o NatText(x.f)
    [] x.t = "str" -> json_str(x.v)

json_union(x) ==
  CASE x.t = "list" ->
         <<"[">> \o join(<<",">>, [k \in DOMAIN x.v |-> json_scalar(x.v[k])]) \o <<"]">>
    [] x.t = "dict" ->
         <<"{">> \o join(<<",">>, [k \in DOMAIN x.v |->
                            json_str(x.v[k][1]) \o <<":">> \o json_scalar(x.v[k][2])])
            \o <<"}">>
    [] OTHER -> json_scalar(x)

\* A declared field returned for every model in place of model_dump_json's
\* fields in declaration order: results before message.
model_dump_json_reordered(model, fields) ==
  <<"{">> \o <<"\"success\":">> \o json_bool(fields.success)
     \o <<",">> \o <<"\"results\":">>
     \o (IF model = "SnowflakeOperationResponse" THEN json_union(fields.results)
         ELSE json_list_str(fields.results))
     \o <<",">> \o <<"\"message\":">> \o json_str(fields.message)
     \o (IF model = "DMLResponse"
         THEN <<",">> \o <<"\"rows_affected\":">> \o IntText(fields.rows_affected)
         ELSE <<>>)
     \o <<"}">>

\* ret.model_dump_json()
model_dump_json(model, fields) ==
  <<"{">> \o <<"\"success\":">> \o json_bool(fields.success)
     \o <<",">> \o <<"\"message\":">> \o json_str(fields.message)
     \o <<",">> \o <<"\"results\":">>
     \o (IF model = "SnowflakeOperationResponse" THEN json_union(fields.results)
         ELSE json_list_str(fields.results))
     \o (IF model = "DMLResponse"
         THEN <<",">> \o <<"\"rows_affected\":">> \o IntText(fields.rows_affected)
         ELSE <<>>)
     \o <<"}">>

SnowflakeResponse_parse_ddl_response(response) ==
  LET ret == DDLResponse(response)
  IN  IF ret.raised THEN ret ELSE Returned(model_dump_json("DDLResponse", ret.value))

SnowflakeResponse_parse_dml_response(response) ==
  LET ret == DMLResponse(response)
  IN  IF ret.raised THEN ret ELSE Returned(model_dump_json("DMLResponse", ret.value))

SnowflakeResponse_parse_snowflake_operation_response(response) ==
  LET ret == SnowflakeOperationResponse(response)
  IN  IF ret.raised THEN ret
      ELSE Returned(model_dump_json("SnowflakeOperationResponse", ret.value))


(***************************************************************************)
(* The DML tools (tools/dml_tools.py).  A tool takes its request, the      *)
(* environment, whether the driver is installed and the driver's choices   *)
(* ch = [connect_ok, drv]; it gives the connection attempts it made (none  *)
(* or one, with the calls made on the connection) and the text it returned *)
(* or the ToolError it raised.                                             *)
(***************************************************************************)
ToolOut(attempts, out) == [attempts |-> attempts, out |-> out]

\* A connection attempt: established when connect returned a connection.
\* No code path of the package closes a connection, so open stays TRUE.
Attempt(established, calls) == [established |-> established, open |-> established, calls |-> calls]

AttemptsOf(mgr, calls) == IF mgr.connected THEN <<Attempt(~mgr.out.raised, calls)>> ELSE <<>>

\* str(rows_affected) inside an f-string.
count_str(rowcount) == IF rowcount = <<>> THEN <<"N", "o", "n", "e">> ELSE IntText(rowcount[1])

\* The except clauses of insert_data.
insert_data_except(e, table_name) ==
  CASE e.cls = "ValidationException" -> ToolError(<<"Validation error: ">> \o exc_str(e))
    [] e.cls = "DMLException" -> ToolError(<<"DML operation failed: ">> \o e.message)
    [] IsSnowflakeException(e) ->
         ToolError(<<"Insert failed: ">> \o <<"Insert operation failed: ">> \o e.message)
    [] OTHER ->
         ToolError(<<"Unexpected insert error: ">> \o <<"Unexpected error during insert: ">> \o exc_str(e))

Tool_insert_data(req, environ, installed, ch) ==
  LET table_name == req.table_name
      columns == [k \in DOMAIN req.data |-> req.data[k][1]]
      values == [k \in DOMAIN req.data |-> req.data[k][2]]
      creds == get_snowflake_credentials(environ)
      mgr == DMLManager_init(creds.value[1], creds.value[2], creds.value[3],
                             environ, installed, ch.connect_ok)
      r == DMLManager_insert_data(<<>>, table_name, columns, values, ch.drv)
      parsed == parse_dml_response(r.out.value)
      fail(attempts, e) == ToolOut(attempts, Raised(insert_data_except(e, table_name)))
  IN  IF table_name = <<>> \/ strip(table_name) = <<>>
      THEN fail(<<>>, ValidationException(<<"Table name cannot be empty">>, "table_name", table_name))
      ELSE IF req.data = <<>>
      THEN fail(<<>>, ValidationException(<<"Data must be a non-empty dictionary">>, "data", <<"{}">>))
      ELSE IF creds.raised THEN fail(<<>>, creds.exc)
      ELSE IF mgr.out.raised THEN fail(AttemptsOf(mgr, <<>>), mgr.out.exc)
      ELSE IF r.out.raised THEN fail(AttemptsOf(mgr, r.calls), r.out.exc)
      ELSE IF parsed.raised THEN fail(AttemptsOf(mgr, r.calls), parsed.exc)
      ELSE ToolOut(AttemptsOf(mgr, r.calls),
             Returned(<<"Data inserted successfully into '">> \o table_name \o <<"'!">>
                      \o <<"Columns: ">> \o join(<<", ">>, columns)
                      \o <<"Rows affected: ">> \o IntText(parsed.value[4][2])
                      \o <<"Operation completed successfully">>))

\* The except clauses of query_data, update_data and delete_data.
plain_except(prefix, e) ==
  IF IsSnowflakeException(e) THEN ToolError(<<prefix>> \o e.message)
  ELSE ToolError(<<"Unexpected error: ">> \o exc_str(e))

Tool_query_data(req, environ, installed, ch) ==
  LET table_name == req.table_name
      creds == get_snowflake_credentials(environ)
      mgr == DMLManager_init(creds.value[1], creds.value[2], creds.value[3],
                             environ, installed, ch.connect_ok)
      r == DMLManager_select_data(<<>>, table_name, req.columns, req.where_clause,
                                  <<>>, req.limit, <<>>, ch.drv)
      parsed == parse_dml_response(r.out.value)
      fail(attempts, e) == ToolOut(attempts, Raised(plain_except("Data query failed: ", e)))
  IN  IF creds.raised THEN fail(<<>>, creds.exc)
      ELSE IF mgr.out.raised THEN fail(AttemptsOf(mgr, <<>>), mgr.out.exc)
      ELSE IF r.out.raised THEN fail(AttemptsOf(mgr, r.calls), r.out.exc)
      ELSE IF parsed.raised THEN fail(AttemptsOf(mgr, r.calls), parsed.exc)
      ELSE ToolOut(AttemptsOf(mgr, r.calls),
             Returned(IF r.out.value.results # <<>>
                      THEN <<"Data retrieved from '">> \o table_name \o <<"':">>
                           \o <<"Total rows: ">> \o IntText(Len(r.out.value.results))
                           \o <<"Results:">> \o join(<<"\n\n">>, r.out.value.results)
                      ELSE <<"No data found in '">> \o table_name
                           \o <<"' matching the specified criteria.">>))

Tool_update_data(req, environ, installed, ch) ==
  LET table_name == req.table_name
      creds == get_snowflake_credentials(environ)
      mgr == DMLManager_init(creds.value[1], creds.value[2], creds.value[3],
                             environ, installed, ch.connect_ok)
      update_sql == <<"UPDATE ">> \o table_name \o <<" SET ">> \o req.set_clause
                       \o <<" WHERE ">> \o req.where_clause
      r == execute_dml(<<>>, update_sql, ch.drv)
      fail(attempts, e) == ToolOut(attempts, Raised(plain_except("Data update failed: ", e)))
  IN  IF creds.raised THEN fail(<<>>, creds.exc)
      ELSE IF mgr.out.raised THEN fail(AttemptsOf(mgr, <<>>), mgr.out.exc)
      ELSE IF r.out.raised THEN fail(AttemptsOf(mgr, r.calls), r.out.exc)
      ELSE ToolOut(AttemptsOf(mgr, r.calls),
             Returned(<<"Data updated successfully in '">> \o table_name \o <<"'!">>
                      \o <<"SET clause: ">> \o req.set_clause
                      \o <<"WHERE clause: ">> \o req.where_clause
                      \o <<"Rows affected: ">> \o count_str(r.out.value.rows_affected)
                      \o <<"Operation completed successfully">>))

Tool_delete_data(req, environ, installed, ch) ==
  LET table_name == req.table_name
      where_clause == req.where_clause
      creds == get_snowflake_credentials(environ)
      mgr == DMLManager_init(creds.value[1], creds.value[2], creds.value[3],
                             environ, installed, ch.connect_ok)
      r == DMLManager_delete_data(<<>>, table_name, where_clause, ch.drv)
      fail(attempts, e) == ToolOut(attempts, Raised(plain_except("Data deletion failed: ", e)))
  IN  IF where_clause = <<>> \/ strip(where_clause) = <<>>
      THEN fail(<<>>, ValidationException(WhereRequiredMessage, "where_clause", where_clause))
      ELSE IF creds.raised THEN fail(<<>>, creds.exc)
      ELSE IF mgr.out.raised THEN fail(AttemptsOf(mgr, <<>>), mgr.out.exc)
      ELSE IF r.out.raised THEN fail(AttemptsOf(mgr, r.calls), r.out.exc)
      ELSE ToolOut(AttemptsOf(mgr, r.calls),
             Returned(<<"Data deleted successfully from '">> \o table_name \o <<"'!">>
                      \o <<"WHERE clause: ">> \o where_clause
                      \o <<"Rows affected: ">> \o count_str(r.out.value.rows_affected)
                      \o <<"This operation cannot be undone">>
                      \o <<"Operation completed successfully">>))


\* The except clauses of execute_dml_statement.
execute_dml_statement_except(e) ==
  CASE e.cls = "ValidationException" -> ToolError(<<"Validation error: ">> \o exc_str(e))
    [] e.cls = "DMLException" -> ToolError(<<"DML operation failed: ">> \o e.message)
    [] IsSnowflakeException(e) ->
         ToolError(<<"DML execution failed: ">> \o <<"DML execution failed: ">> \o e.message)
    [] OTHER ->
         ToolError(<<"Unexpected DML error: ">> \o <<"Unexpected error during DML execution: ">> \o exc_str(e))

\* execute_dml_statement reading the credentials before it looks at its
\* argument.
Tool_execute_dml_statement_credentials_first(req, environ, installed, ch) ==
  LET dml_statement == req.dml_statement
      creds == get_snowflake_credentials(environ)
      mgr == DMLManager_init(creds.value[1], creds.value[2], creds.value[3],
                             environ, installed, ch.connect_ok)
      r == execute_dml(<<>>, dml_statement, ch.drv)
      parsed == parse_dml_response(r.out.value)
      fail(attempts, e) == ToolOut(attempts, Raised(execute_dml_statement_except(e)))
  IN  IF creds.raised THEN fail(<<>>, creds.exc)
      ELSE IF dml_statement = <<>> \/ strip(dml_statement) = <<>>
      THEN fail(<<>>, ValidationException(<<"DML statement cannot be empty">>, "dml_statement", dml_statement))
      ELSE IF mgr.out.raised THEN fail(AttemptsOf(mgr, <<>>), mgr.out.exc)
      ELSE IF r.out.raised THEN fail(AttemptsOf(mgr, r.calls), r.out.exc)
      ELSE IF parsed.raised THEN fail(AttemptsOf(mgr, r.calls), parsed.exc)
      ELSE ToolOut(AttemptsOf(mgr, r.calls),
             Returned(<<"DML statement executed successfully!">>
                      \o <<"Statement: ">> \o dml_statement
                      \o <<"Operation completed successfully">>
                      \o <<"Rows affected: ">> \o IntText(parsed.value[4][2])
                      \o <<"Results: ">> \o IntText(Len(parsed.value[3][2])) \o <<" rows returned">>))

Tool_execute_dml_statement(req, environ, installed, ch) ==
  LET dml_statement == req.dml_statement
      creds == get_snowflake_credentials(environ)
      mgr == DMLManager_init(creds.value[1], creds.value[2], creds.value[3],
                             environ, installed, ch.connect_ok)
      r == execute_dml(<<>>, dml_statement, ch.drv)
      parsed == parse_dml_response(r.out.value)
      fail(attempts, e) == ToolOut(attempts, Raised(execute_dml_statement_except(e)))
  IN  IF dml_statement = <<>> \/ strip(dml_statement) = <<>>
      THEN fail(<<>>, ValidationException(<<"DML statement cannot be empty">>, "dml_statement", dml_statement))
      ELSE IF creds.raised THEN fail(<<>>, creds.exc)
      ELSE IF mgr.out.raised THEN fail(AttemptsOf(mgr, <<>>), mgr.out.exc)
      ELSE IF r.out.raised THEN fail(AttemptsOf(mgr, r.calls), r.out.exc)
      ELSE IF parsed.raised THEN fail(AttemptsOf(mgr, r.calls), parsed.exc)
      ELSE ToolOut(AttemptsOf(mgr, r.calls),
             Returned(<<"DML statement executed successfully!">>
                      \o <<"Statement: ">> \o dml_statement
                      \o <<"Operation completed successfully">>
                      \o <<"Rows affected: ">> \o IntText(parsed.value[4][2])
                      \o <<"Results: ">> \o IntText(Len(parsed.value[3][2])) \o <<" rows returned">>))

\* The except clauses of merge_data.
merge_data_except(e) ==
  CASE e.cls = "ValidationException" -> ToolError(<<"Validation error: ">> \o exc_str(e))
    [] e.cls = "DMLException" -> ToolError(<<"MERGE operation failed: ">> \o e.message)
    [] IsSnowflakeException(e) ->
         ToolError(<<"MERGE failed: ">> \o <<"MERGE operation failed: ">> \o e.message)
    [] OTHER ->
         ToolError(<<"Unexpected MERGE error: ">> \o <<"Unexpected error during MERGE: ">> \o exc_str(e))

Tool_merge_data(req, environ, installed, ch) ==
  LET target_table == req.target_table
      source_table == req.source_table
      merge_condition == req.merge_condition
      creds == get_snowflake_credentials(environ)
      mgr == DMLManager_init(creds.value[1], creds.value[2], creds.value[3],
                             environ, installed, ch.connect_ok)
      r == DMLManager_merge_data(<<>>, target_table, source_table, merge_condition,
                                 req.match_actions, req.not_match_actions, ch.drv)
      parsed == parse_dml_response(r.out.value)
      fail(attempts, e) == ToolOut(attempts, Raised(merge_data_except(e)))
  IN  IF target_table = <<>> \/ strip(target_table) = <<>>
      THEN fail(<<>>, ValidationException(<<"Target table name cannot be empty">>, "target_table", target_table))
      ELSE IF source_table = <<>> \/ strip(source_table) = <<>>
      THEN fail(<<>>, ValidationException(<<"Source table name cannot be empty">>, "source_table", source_table))
      ELSE IF merge_condition = <<>> \/ strip(merge_condition) = <<>>
      THEN fail(<<>>, ValidationException(<<"Merge condition cannot be empty">>, "merge_condition", merge_condition))
      ELSE IF req.match_actions = <<>>
      THEN fail(<<>>, ValidationException(<<"At least one match action is required">>, "match_actions", <<"[]">>))
      ELSE IF creds.raised THEN fail(<<>>, creds.exc)
      ELSE IF mgr.out.raised THEN fail(AttemptsOf(mgr, <<>>), mgr.out.exc)
      ELSE IF r.out.raised THEN fail(AttemptsOf(mgr, r.calls), r.out.exc)
      ELSE IF parsed.raised THEN fail(AttemptsOf(mgr, r.calls), parsed.exc)
      ELSE ToolOut(AttemptsOf(mgr, r.calls),
             Returned(<<"MERGE operation completed successfully!">>
                      \o <<"Target table: ">> \o target_table
                      \o <<"Source: ">> \o source_table
                      \o <<"Merge condition: ">> \o merge_condition
                      \o <<"Rows affected: ">> \o count_str(r.out.value.rows_affected)
                      \o <<"Operation completed successfully">>))


(***************************************************************************)
(* The raw-SQL tools of tools/ddl_tools.py and tools/operations_tools.py.  *)
(* helpers/ddl_manager.py and helpers/operations_manager.py are not part   *)
(* of the sources at hand: DDLManager and OperationsManager are taken to   *)
(* connect as DMLManager does and to execute as the Executor of the        *)
(* design does (cursor, execute, fetchall; a kind-specific exception       *)
(* carrying the statement and the tag EXECUTE on any failure).             *)
(***************************************************************************)
DDLManager_init(account_identifier, username, password, environ, installed, connect_ok) ==
  LET got == get_snowflake_connection(account_identifier, username, password,
                                      environ, installed, connect_ok)
  IN  IF got.out.raised
      THEN Connected(got.connected, Raised(DDLException(
             <<"Failed to establish connection: ">> \o exc_str(got.out.exc), "CONNECTION", <<>>)))
      ELSE got

DDLManager_execute_ddl(calls, ddl, drv) ==
  LET c1 == Append(calls, ConnCall("cursor", <<>>))
      c2 == Append(c1, ConnCall("execute", ddl))
      c3 == Append(c2, ConnCall("fetchall", <<>>))
      err == Raised(DDLException(<<"Error executing DDL: ">> \o DriverMsg, "EXECUTE", ddl))
  IN  CASE drv.fail = "cursor" -> Stepped(c1, err)
        [] drv.fail = "execute" -> Stepped(c2, err)
        [] drv.fail = "fetchall" -> Stepped(c3, err)
        [] OTHER ->
             Stepped(c3, Returned([success |-> TRUE,
                                   message |-> <<"DDL operation executed successfully">>,
                                   results |-> [k \in DOMAIN drv.rows |-> row_str(drv.rows[k])]]))

OperationsManager_init(account_identifier, username, password, environ, installed, connect_ok) ==
  LET got == get_snowflake_connection(account_identifier, username, password,
                                      environ, installed, connect_ok)
  IN  IF got.out.raised
      THEN Connected(got.connected, Raised(OperationsException(
             <<"Failed to establish connection: ">> \o exc_str(got.out.exc), "CONNECTION", <<>>)))
      ELSE got

OperationsManager_execute_query(calls, query, drv) ==
  LET c1 == Append(calls, ConnCall("cursor", <<>>))
      c2 == Append(c1, ConnCall("execute", query))
      c3 == Append(c2, ConnCall("fetchall", <<>>))
      err == Raised(OperationsException(<<"Error executing query: ">> \o DriverMsg, "EXECUTE", query))
  IN  CASE drv.fail = "cursor" -> Stepped(c1, err)
        [] drv.fail = "execute" -> Stepped(c2, err)
        [] drv.fail = "fetchall" -> Stepped(c3, err)
        [] OTHER ->
             Stepped(c3, Returned([success |-> TRUE,
                                   message |-> <<"Query executed successfully">>,
                                   results |-> [k \in DOMAIN drv.rows |-> row_str(drv.rows[k])]]))

\* The except clauses of execute_ddl_statement.
execute_ddl_statement_except(e) ==
  CASE e.cls = "ValidationException" -> ToolError(<<"Validation error: ">> \o exc_str(e))
    [] e.cls = "DDLException" -> ToolError(<<"DDL operation failed: ">> \o e.message)
    [] IsSnowflakeException(e) ->
         ToolError(<<"DDL execution failed: ">> \o <<"DDL execution failed: ">> \o e.message)
    [] OTHER ->
         ToolError(<<"Unexpected DDL error: ">> \o <<"Unexpected error during DDL execution: ">> \o exc_str(e))

Tool_execute_ddl_statement(req, environ, installed, ch) ==
  LET ddl_statement == req.ddl_statement
      creds == get_snowflake_credentials(environ)
      mgr == DDLManager_init(creds.value[1], creds.value[2], creds.value[3],
                             environ, installed, ch.connect_ok)
      r == DDLManager_execute_ddl(<<>>, ddl_statement, ch.drv)
      fail(attempts, e) == ToolOut(attempts, Raised(execute_ddl_statement_except(e)))
  IN  IF ddl_statement = <<>> \/ strip(ddl_statement) = <<>>
      THEN fail(<<>>, ValidationException(<<"DDL statement cannot be empty">>, "ddl_statement", ddl_statement))
      ELSE IF creds.raised THEN fail(<<>>, creds.exc)
      ELSE IF mgr.out.raised THEN fail(AttemptsOf(mgr, <<>>), mgr.out.exc)
      ELSE IF r.out.raised THEN fail(AttemptsOf(mgr, r.calls), r.out.exc)
      ELSE ToolOut(AttemptsOf(mgr, r.calls),
             Returned(<<"DDL statement executed successfully!">>
                      \o <<"Statement: ">> \o ddl_statement
                      \o <<"Operation completed successfully">>
                      \o <<"Results: ">> \o IntText(Len(r.out.value.results)) \o <<" rows affected">>))

\* The except clauses of execute_sql_query.
execute_sql_query_except(e) ==
  CASE e.cls = "ValidationException" -> ToolError(<<"Validation error: ">> \o exc_str(e))
    [] e.cls = "OperationsException" -> ToolError(<<"Operations failed: ">> \o e.message)
    [] IsSnowflakeException(e) ->
         ToolError(<<"SQL query failed: ">> \o <<"SQL query failed: ">> \o e.message)
    [] OTHER ->
         ToolError(<<"Unexpected SQL error: ">> \o <<"Unexpected error during SQL execution: ">> \o exc_str(e))

Tool_execute_sql_query(req, environ, installed, ch) ==
  LET query == req.query
      creds == get_snowflake_credentials(environ)
      mgr == OperationsManager_init(creds.value[1], creds.value[2], creds.value[3],
                                    environ, installed, ch.connect_ok)
      r == OperationsManager_execute_query(<<>>, query, ch.drv)
      rows == r.out.value.results
      fail(attempts, e) == ToolOut(attempts, Raised(execute_sql_query_except(e)))
  IN  IF creds.raised THEN fail(<<>>, creds.exc)
      ELSE IF mgr.out.raised THEN fail(AttemptsOf(mgr, <<>>), mgr.out.exc)
      ELSE IF r.out.raised THEN fail(AttemptsOf(mgr, r.calls), r.out.exc)
      ELSE ToolOut(AttemptsOf(mgr, r.calls),
             Returned(IF rows # <<>>
                      THEN <<"SQL query executed successfully:">>
                           \o <<"Query: ">> \o query
                           \o <<"Total rows: ">> \o IntText(Len(rows))
                           \o <<"Results:">>
                           \o join(<<"\n\n">>,
                                   [k \in DOMAIN rows |->
                                      <<"Row ">> \o IntText(k) \o <<": ">>
                                         \o <<"{\n  \"data\": \"">> \o rows[k] \o <<"\"\n}">>])
                      ELSE <<"SQL query executed successfully (no results returned):\n\n">>
                           \o <<"Query: ">> \o query))

test_query ==
  <<"SELECT CURRENT_USER() as user, CURRENT_ACCOUNT() as account, CURRENT_REGION() as region, CURRENT_TIMESTAMP() as timestamp, CURRENT_VERSION() as version">>

\* test_snowflake_connection: its one except clause returns a text.
Tool_test_snowflake_connection(req, environ, installed, ch) ==
  LET creds == get_snowflake_credentials(environ)
      mgr == OperationsManager_init(creds.value[1], creds.value[2], creds.value[3],
                                    environ, installed, ch.connect_ok)
      r == OperationsManager_execute_query(<<>>, test_query, ch.drv)
      rows == r.out.value.results
      failed(attempts, e) ==
        ToolOut(attempts, Returned(<<"Snowflake Connection Test FAILED!">>
                                   \o <<"Error: ">> \o exc_str(e)
                                   \o <<"Please verify:">>))
  IN  IF creds.raised THEN failed(<<>>, creds.exc)
      ELSE IF mgr.out.raised THEN failed(AttemptsOf(mgr, <<>>), mgr.out.exc)
      ELSE IF r.out.raised THEN failed(AttemptsOf(mgr, r.calls), r.out.exc)
      ELSE ToolOut(AttemptsOf(mgr, r.calls),
             Returned(<<"Snowflake Connection Test SUCCESSFUL!">>
                      \o <<"Account: ">> \o creds.value[1] \o <<"User: ">> \o creds.value[2]
                      \o (IF rows # <<>> THEN <<"Query Results:">> \o rows[1] ELSE <<>>)
                      \o <<"Connection Status: ACTIVE">>))

\* The tool a request names, run on it.
call_tool(req, environ, installed, ch) ==
  CASE req.tool = "insert_data" -> Tool_insert_data(req, environ, installed, ch)
    [] req.tool = "query_data" -> Tool_query_data(req, environ, installed, ch)
    [] req.tool = "update_data" -> Tool_update_data(req, environ, installed, ch)
    [] req.tool = "delete_data" -> Tool_delete_data(req, environ, installed, ch)
    [] req.tool = "execute_dml_statement" -> Tool_execute_dml_statement(req, environ, installed, ch)
    [] req.tool = "merge_data" -> Tool_merge_data(req, environ, installed, ch)
    [] req.tool = "execute_ddl_statement" -> Tool_execute_ddl_statement(req, environ, installed, ch)
    [] req.tool = "execute_sql_query" -> Tool_execute_sql_query(req, environ, installed, ch)
    [] req.tool = "test_snowflake_connection" ->
         Tool_test_snowflake_connection(req, environ, installed, ch)


(***************************************************************************)
(* The request pipeline (middleware/snowflake_middleware.py).  An          *)
(* interceptor's on_call_tool is the part before  await call_next(context) *)
(* (enter) and the part after it (exit).  What it logs is an observation.  *)
(***************************************************************************)
\* Chain with Logging registered before Security.
ChainLoggingBeforeSecurity == <<"Validation", "Logging", "Security", "Connection">>

\* The order of the add_middleware calls: the first added is the outermost.
Chain == <<"Validation", "Security", "Logging", "Connection">>

Obs(ev, who, text) == [ev |-> ev, who |-> who, text |-> text]

\* getattr(context, 'tool_name', 'unknown')
tool_name(req) == <<"unknown">>

DANGEROUS_KEYWORDS ==
  { <<"d","r","o","p"," ","d","a","t","a","b","a","s","e">>,
    <<"d","r","o","p"," ","w","a","r","e","h","o","u","s","e">>,
    <<"t","r","u","n","c","a","t","e">>,
    <<"d","e","l","e","t","e"," ","f","r","o","m">>,
    <<"a","l","t","e","r"," ","u","s","e","r">>,
    <<"c","r","e","a","t","e"," ","u","s","e","r">>,
    <<"d","r","o","p"," ","u","s","e","r">>,
    <<"g","r","a","n","t">>,
    <<"r","e","v","o","k","e">> }

sql_fields == {"ddl_statement", "sql_statement", "query", "statement"}

\* context.arguments: the text arguments of a request, by name.
arguments(req) ==
  {<<f, req[f]>> : f \in (DOMAIN req) \cap
      {"ddl_statement", "dml_statement", "sql_statement", "query", "statement"}}

\* Whether the scan of the Security interceptor logs a warning.
security_match(req) ==
  \E a \in arguments(req) :
     /\ a[1] \in sql_fields
     /\ a[2] # <<>>
     /\ \E keyword \in DANGEROUS_KEYWORDS : Contains(lower(a[2]), keyword)

\* What each interceptor observes before it forwards.
middleware_enter(who, req) ==
  CASE who = "Validation" -> <<Obs("debug", who, <<"Validating tool: ">> \o tool_name(req))>>
    [] who = "Security" ->
         IF security_match(req)
         THEN <<Obs("warning", who, <<"Potentially dangerous SQL operation detected">>)>>
         ELSE <<>>
    [] who = "Logging" -> <<Obs("info", who, <<"started">>)>>
    [] who = "Connection" -> <<>>

Exited(out, obs) == [out |-> out, obs |-> obs]

\* SnowflakeLoggingMiddleware raising a new exception from its except clause
\* in place of the bare raise.
LoggingWrapsFailure(result) ==
  IF result.raised
  THEN Exited(Raised(OtherException(<<"tool failed: ">> \o exc_str(result.exc))),
              <<Obs("error", "Logging", <<"failed: ">> \o exc_str(result.exc))>>)
  ELSE Exited(result, <<Obs("info", "Logging", <<"completed successfully">>)>>)

\* SnowflakeLoggingMiddleware logging nothing when the inner call raised.
LoggingSilentOnFailure(result) ==
  IF result.raised
  THEN Exited(result, <<>>)
  ELSE Exited(result, <<Obs("info", "Logging", <<"completed successfully">>)>>)

\* SnowflakeLoggingMiddleware after call_next: log the outcome, then return
\* the result or re-raise the exception.
SnowflakeLoggingMiddleware_exit(result) ==
  IF result.raised
  THEN Exited(result, <<Obs("error", "Logging", <<"failed: ">> \o exc_str(result.exc))>>)
  ELSE Exited(result, <<Obs("info", "Logging", <<"completed successfully">>)>>)

\* The other three interceptors:  return await call_next(context).
passthrough_exit(result) == Exited(result, <<>>)

\* The Security interceptor returning an empty result in place of the inner
\* layer's result or failure.
security_masking_exit(who, result) ==
  IF who = "Security" THEN Exited(Returned(<<>>), <<>>)
  ELSE IF who = "Logging" THEN SnowflakeLoggingMiddleware_exit(result)
  ELSE passthrough_exit(result)

middleware_exit(who, result) ==
  IF who = "Logging" THEN SnowflakeLoggingMiddleware_exit(result) ELSE passthrough_exit(result)


(***************************************************************************)
(* Requests and the environment's choices.                                 *)
(***************************************************************************)
InsertReq(table_name, data) ==
  [tool |-> "insert_data", table_name |-> table_name, data |-> data]
QueryReq(table_name, columns, where_clause, limit) ==
  [tool |-> "query_data", table_name |-> table_name, columns |-> columns,
   where_clause |-> where_clause, limit |-> limit]
UpdateReq(table_name, set_clause, where_clause) ==
  [tool |-> "update_data", table_name |-> table_name, set_clause |-> set_clause,
   where_clause |-> where_clause]
DeleteReq(table_name, where_clause) ==
  [tool |-> "delete_data", table_name |-> table_name, where_clause |-> where_clause]
ExecuteReq(dml_statement) ==
  [tool |-> "execute_dml_statement", dml_statement |-> dml_statement]
MergeReq(target_table, source_table, merge_condition, match_actions, not_match_actions) ==
  [tool |-> "merge_data", target_table |-> target_table, source_table |-> source_table,
   merge_condition |-> merge_condition, match_actions |-> match_actions,
   not_match_actions |-> not_match_actions]
DdlReq(ddl_statement) == [tool |-> "execute_ddl_statement", ddl_statement |-> ddl_statement]
SqlQueryReq(query) == [tool |-> "execute_sql_query", query |-> query]
TestConnectionReq == [tool |-> "test_snowflake_connection"]
NoReq == [tool |-> "none"]

Qualified == <<"d", ".", "s", ".", "t">>
Unqualified == <<"t">>
SomeWhere == <<"x">>
SomeSet == <<"a", "=", "1">>
ColA == <<"a">>
ColB == <<"b">>
ColId == <<"i", "d">>
ColName == <<"n", "a", "m", "e">>
OneUpdate == <<MergeAction("UPDATE", <<ColA>>, <<IntVal(1)>>)>>
OneInsert == <<MergeAction("INSERT", <<ColA>>, <<IntVal(1)>>)>>

\* Raw statements holding a phrase of DANGEROUS_KEYWORDS, in mixed case.
DeleteFromText == <<"D","E","L","E","T","E"," ","F","r","o","m"," ","t">>
DropDatabaseText == <<"D","r","o","p"," ","D","A","T","A","B","A","S","E"," ","d">>
GrantText == <<"G","R","A","N","T"," ","x">>

\* The requests of the concurrent invocations: every tool, well-formed and not.
Requests ==
  { InsertReq(Qualified, << <<ColA, IntVal(1)>> >>),
    QueryReq(Unqualified, <<>>, <<>>, <<100>>),
    UpdateReq(Unqualified, SomeSet, SomeWhere),
    DeleteReq(Qualified, SomeWhere),
    DeleteReq(Qualified, <<" ">>),
    ExecuteReq(<<"x">>),
    MergeReq(Qualified, Qualified, SomeWhere, OneUpdate, OneInsert),
    ExecuteReq(DeleteFromText),
    DdlReq(DropDatabaseText),
    SqlQueryReq(GrantText) }

EnvValues == {<<>>, <<"v">>}
Environs ==
  [SNOWFLAKE_ACCOUNT : EnvValues, SNOWFLAKE_USER : EnvValues,
   SNOWFLAKE_PAT : EnvValues, SNOWFLAKE_PASSWORD : EnvValues]

Driver(fail, rows, rowcount) == [fail |-> fail, rows |-> rows, rowcount |-> rowcount]

\* What the driver may do with one statement.
DriverChoices ==
  {Driver(f, <<>>, <<>>) : f \in {"cursor", "execute", "fetchall"}}
    \cup {Driver("none", rows, rc) : rows \in {<<>>, << <<7>> >>}, rc \in {<<>>, <<1>>}}

Choices == [connect_ok : BOOLEAN, drv : DriverChoices]

\* The driver's choices for the concurrent invocations.
PipelineChoices ==
  [connect_ok : BOOLEAN,
   drv : {Driver("execute", <<>>, <<>>), Driver("none", << <<7>> >>, <<1>>)}]

FullEnv ==
  [SNOWFLAKE_ACCOUNT |-> <<"v">>, SNOWFLAKE_USER |-> <<"v">>,
   SNOWFLAKE_PAT |-> <<"v">>, SNOWFLAKE_PASSWORD |-> <<>>]
NoUserEnv == [FullEnv EXCEPT !.SNOWFLAKE_USER = <<>>]

(***************************************************************************)
(* The state.                                                              *)
(***************************************************************************)
VARIABLES
  environ,    \* os.environ: the four credential variables
  installed,  \* whether  import snowflake.connector  succeeded
  pc,         \* each invocation's position in the pipeline
  req,        \* each invocation's request
  stack,      \* the interceptors an invocation has entered and not yet left
  trace,      \* what each invocation did, in order
  result,     \* what the innermost finished layer returned or raised
  conns,      \* the connect attempts of each invocation, with the calls made on each
  unit        \* the last direct call of a builder or a tool, and its outcome

vars == <<environ, installed, pc, req, stack, trace, result, conns, unit>>

NoResult == [raised |-> FALSE, value |-> <<>>, exc |-> NoExc]
NoUnit == [kind |-> "none"]

Init ==
  /\ environ \in {FullEnv, NoUserEnv}
  /\ installed = TRUE
  /\ pc = [i \in Invocations |-> "idle"]
  /\ req = [i \in Invocations |-> NoReq]
  /\ stack = [i \in Invocations |-> <<>>]
  /\ trace = [i \in Invocations |-> <<>>]
  /\ result = [i \in Invocations |-> NoResult]
  /\ conns = [i \in Invocations |-> <<>>]
  /\ unit = NoUnit

\* The host calls a tool: the pipeline starts.
Call(i) ==
  /\ pc[i] = "idle"
  /\ \E r \in Requests : req' = [req EXCEPT ![i] = r]
  /\ pc' = [pc EXCEPT ![i] = "entering"]
  /\ UNCHANGED <<environ, installed, stack, trace, result, conns, unit>>

\* The next interceptor of the chain runs up to its  await call_next(context).
Enter(i) ==
  /\ pc[i] = "entering"
  /\ LET who == Chain[Len(stack[i]) + 1]
     IN  /\ stack' = [stack EXCEPT ![i] = Append(@, who)]
         /\ trace' = [trace EXCEPT ![i] = Append(@, Obs("enter", who, <<>>))
                                             \o middleware_enter(who, req[i])]
         /\ pc' = [pc EXCEPT ![i] = IF Len(stack[i]) + 1 = Len(Chain) THEN "tool" ELSE "entering"]
  /\ UNCHANGED <<environ, installed, req, result, conns, unit>>

\* A tool's connect attempts as the state holds them: each call on a
\* connection is marked with the invocation that made it.
Marked(i, attempts) ==
  [k \in DOMAIN attempts |->
     [established |-> attempts[k].established, open |-> attempts[k].open,
      calls |-> [c \in DOMAIN attempts[k].calls |->
                   [op |-> attempts[k].calls[c].op, sql |-> attempts[k].calls[c].sql, by |-> i]]]]

\* A manager taking an established connection of another invocation, when
\* there is one, in place of a connection of its own.
pooled_connections(cs, i, attempts) ==
  LET mine == Marked(i, attempts)
      donors == {j \in DOMAIN cs : j # i /\ cs[j] # <<>> /\ cs[j][1].established}
  IN  IF mine # <<>> /\ mine[1].established /\ donors # {}
      THEN LET j == CHOOSE d \in donors : TRUE
           IN  [cs EXCEPT ![j][1].calls = @ \o mine[1].calls]
      ELSE [cs EXCEPT ![i] = @ \o mine]

\* DMLManager.__init__ keeps the connection it was given in the new manager,
\* which the tool holds in a local: the connection is the invocation's own.
manager_connections(cs, i, attempts) == [cs EXCEPT ![i] = @ \o Marked(i, attempts)]

\* The tool body runs: validation, credentials, connection, statement, response.
RunTool(i) ==
  /\ pc[i] = "tool"
  /\ \E ch \in PipelineChoices :
       LET t == call_tool(req[i], environ, installed, ch)
       IN  /\ conns' = manager_connections(conns, i, t.attempts)
           /\ result' = [result EXCEPT ![i] = t.out]
  /\ trace' = [trace EXCEPT ![i] = Append(@, Obs("tool", req[i].tool, <<>>))]
  /\ pc' = [pc EXCEPT ![i] = "exiting"]
  /\ UNCHANGED <<environ, installed, req, stack, unit>>

\* The innermost entered interceptor resumes after call_next and finishes.
Exit(i) ==
  /\ pc[i] = "exiting"
  /\ LET who == stack[i][Len(stack[i])]
         x == middleware_exit(who, result[i])
     IN  /\ result' = [result EXCEPT ![i] = x.out]
         /\ trace' = [trace EXCEPT ![i] = (@ \o x.obs) \o <<Obs("exit", who, <<>>)>>]
         /\ stack' = [stack EXCEPT ![i] = SubSeq(@, 1, Len(@) - 1)]
         /\ pc' = [pc EXCEPT ![i] = IF Len(stack[i]) = 1 THEN "done" ELSE "exiting"]
  /\ UNCHANGED <<environ, installed, req, conns, unit>>

Next == \E i \in Invocations : Call(i) \/ Enter(i) \/ RunTool(i) \/ Exit(i)

Spec == Init /\ [][Next]_vars


(***************************************************************************)
(* Direct calls: one builder method of a constructed DMLManager, or one    *)
(* tool without the pipeline, called once on arguments from bounded sets.  *)
(* unit holds the call, the connection attempts with the calls made on the *)
(* connection, and what the call returned or raised.                       *)
(***************************************************************************)
NameChars == {"a", "."}
TableNames == SeqsUpTo(NameChars, MaxName)
WhereChars == {"x", " "}
Wheres == SeqsUpTo(WhereChars, MaxWhere)
ColumnLists == SeqsUpTo({ColA, ColB}, MaxCols)
QuotedName == <<"J", "o", "'", "h", "n">>
Values ==
  {NoneVal, IntVal(1), BoolVal(TRUE), BoolVal(FALSE), FloatVal(1, 5), StrVal(<<"s">>),
   StrVal(QuotedName)}
ValueLists == SeqsUpTo(Values, MaxCols)
Limits == {<<>>, <<0>>, <<5>>}
MatchActions ==
  { MergeAction("UPDATE", <<ColA>>, <<IntVal(1)>>),
    MergeAction("UPDATE", <<ColA, ColB>>, <<IntVal(1)>>),
    MergeAction("UPDATE", <<ColB>>, <<BoolVal(FALSE)>>),
    MergeAction("DELETE", <<>>, <<>>),
    MergeAction("INSERT", <<ColA>>, <<IntVal(1)>>) }
NotMatchActions ==
  { MergeAction("INSERT", <<ColA>>, <<StrVal(<<"s">>)>>),
    MergeAction("INSERT", <<ColA>>, <<>>),
    MergeAction("INSERT", <<ColA, ColB>>, <<BoolVal(TRUE), StrVal(QuotedName)>>),
    MergeAction("UPDATE", <<ColA>>, <<IntVal(1)>>) }
BuilderDrivers == {Driver("execute", <<>>, <<>>), Driver("none", << <<7>> >>, <<1>>)}

EmptyEnv ==
  [SNOWFLAKE_ACCOUNT |-> <<>>, SNOWFLAKE_USER |-> <<>>,
   SNOWFLAKE_PAT |-> <<>>, SNOWFLAKE_PASSWORD |-> <<>>]

InitUnit ==
  /\ environ \in {FullEnv, NoUserEnv, EmptyEnv}
  /\ installed \in BOOLEAN
  /\ pc = [i \in Invocations |-> "idle"]
  /\ req = [i \in Invocations |-> NoReq]
  /\ stack = [i \in Invocations |-> <<>>]
  /\ trace = [i \in Invocations |-> <<>>]
  /\ result = [i \in Invocations |-> NoResult]
  /\ conns = [i \in Invocations |-> <<>>]
  /\ unit = NoUnit

\* DMLManager() with no arguments gave a manager: the builders can be called.
ManagerConstructed ==
  ~DMLManager_init(<<>>, <<>>, <<>>, environ, installed, TRUE).out.raised

UnitCall(kind, op, args, attempts, out) ==
  [kind |-> kind, op |-> op, args |-> args, attempts |-> attempts, out |-> out]

BuilderCall(op, args, r) == UnitCall("builder", op, args, <<Attempt(TRUE, r.calls)>>, r.out)

Unit_execute_dml ==
  /\ unit = NoUnit /\ ManagerConstructed
  /\ \E dml \in Wheres, drv \in DriverChoices :
       unit' = BuilderCall("execute_dml", [dml |-> dml, drv |-> drv], execute_dml(<<>>, dml, drv))
  /\ UNCHANGED <<environ, installed, pc, req, stack, trace, result, conns>>

\* The arguments of the direct builder calls: every table name with some
\* well-formed arguments, and every argument list with some table names.
SomeTables == {Qualified, Unqualified}

SelectCalls ==
  [table_name : TableNames, columns : {<<>>, <<ColA, ColB>>}, where_clause : {<<>>, SomeWhere},
   order_by : {<<>>, <<ColA>>}, limit : Limits, offset : {<<>>, <<0>>}]

InsertCalls ==
  [table_name : TableNames, columns : {<<ColA>>}, values : {<<IntVal(1)>>}]
    \cup [table_name : SomeTables, columns : ColumnLists, values : ValueLists]

UpdateCalls ==
  [table_name : TableNames, columns : {<<ColA>>}, values : {<<IntVal(1)>>},
   where_clause : {SomeWhere}]
    \cup [table_name : SomeTables, columns : ColumnLists, values : ValueLists,
          where_clause : {<<>>, <<" ">>, SomeWhere}]

DeleteCalls == [table_name : TableNames, where_clause : Wheres]

MergeCalls ==
  [table_name : TableNames, source_table : SomeTables, merge_condition : {SomeWhere},
   match_actions : {OneUpdate}, not_match_actions : {<<>>, OneInsert}]
    \cup [table_name : SomeTables, source_table : {Unqualified}, merge_condition : {SomeWhere},
          match_actions : SeqsUpTo(MatchActions, MaxActions),
          not_match_actions : SeqsUpTo(NotMatchActions, MaxActions)]

Unit_select_data ==
  /\ unit = NoUnit /\ ManagerConstructed
  /\ \E a \in SelectCalls, drv \in BuilderDrivers :
       unit' = BuilderCall("select_data", a,
                 DMLManager_select_data(<<>>, a.table_name, a.columns, a.where_clause,
                                        a.order_by, a.limit, a.offset, drv))
  /\ UNCHANGED <<environ, installed, pc, req, stack, trace, result, conns>>

Unit_insert_data ==
  /\ unit = NoUnit /\ ManagerConstructed
  /\ \E a \in InsertCalls, drv \in BuilderDrivers :
       unit' = BuilderCall("insert_data", a,
                 DMLManager_insert_data(<<>>, a.table_name, a.columns, a.values, drv))
  /\ UNCHANGED <<environ, installed, pc, req, stack, trace, result, conns>>

Unit_update_data ==
  /\ unit = NoUnit /\ ManagerConstructed
  /\ \E a \in UpdateCalls, drv \in BuilderDrivers :
       unit' = BuilderCall("update_data", a,
                 DMLManager_update_data(<<>>, a.table_name, a.columns, a.values,
                                        a.where_clause, drv))
  /\ UNCHANGED <<environ, installed, pc, req, stack, trace, result, conns>>

Unit_delete_data ==
  /\ unit = NoUnit /\ ManagerConstructed
  /\ \E a \in DeleteCalls, drv \in BuilderDrivers :
       unit' = BuilderCall("delete_data", a,
                 DMLManager_delete_data(<<>>, a.table_name, a.where_clause, drv))
  /\ UNCHANGED <<environ, installed, pc, req, stack, trace, result, conns>>

Unit_merge_data ==
  /\ unit = NoUnit /\ ManagerConstructed
  /\ \E a \in MergeCalls, drv \in BuilderDrivers :
       unit' = BuilderCall("merge_data", a,
                 DMLManager_merge_data(<<>>, a.table_name, a.source_table, a.merge_condition,
                                       a.match_actions, a.not_match_actions, drv))
  /\ UNCHANGED <<environ, installed, pc, req, stack, trace, result, conns>>

\* The requests of the direct tool calls.
UnitRequests ==
  {InsertReq(t, d) : t \in TableNames, d \in {<<>>, << <<ColA, IntVal(1)>>, <<ColB, StrVal(<<"s">>)>> >>,
                                    << <<ColId, IntVal(1)>>, <<ColName, StrVal(QuotedName)>> >>}}
    \cup {QueryReq(t, c, w, l) : t \in TableNames, c \in {<<>>, <<ColA>>},
                                 w \in {<<>>, SomeWhere}, l \in {<<>>, <<100>>}}
    \cup {UpdateReq(t, SomeSet, w) : t \in TableNames, w \in Wheres}
    \cup {DeleteReq(t, w) : t \in TableNames, w \in Wheres}
    \cup {ExecuteReq(st) : st \in Wheres}
    \cup {DdlReq(st) : st \in Wheres}
    \cup {SqlQueryReq(st) : st \in Wheres}
    \cup {TestConnectionReq}
    \cup {MergeReq(t, src, c, m, n) : t \in TableNames, src \in {Unqualified},
                                      c \in {<<>>, SomeWhere},
                                      m \in {<<>>, OneUpdate}, n \in {<<>>, OneInsert}}
    \cup {InsertReq(<<" ">>, << <<ColA, IntVal(1)>> >>)}
    \cup {MergeReq(t, src, c, OneUpdate, <<>>) : t \in {Qualified, <<" ">>},
                                                src \in {<<>>, <<" ">>, Qualified},
                                                c \in {<<" ">>, SomeWhere}}

Unit_tool ==
  /\ unit = NoUnit
  /\ \E r \in UnitRequests, ch \in Choices :
       LET t == call_tool(r, environ, installed, ch)
       IN  unit' = UnitCall("tool", r.tool, r, t.attempts, t.out)
  /\ UNCHANGED <<environ, installed, pc, req, stack, trace, result, conns>>

\* The response dicts handed to the parsers directly: each key absent, well
\* typed, of a type lax validation converts, or of a type it rejects.
RawResponses ==
  [success : {Absent, BoolVal(TRUE), BoolVal(FALSE), IntVal(1), StrVal(<<"y","e","s">>), NoneVal},
   message : {Absent, StrVal(<<"o","k">>), StrVal(<<"o","\"","k">>), IntVal(1)},
   results : {Absent, NoneVal, ListVal(<<>>), ListVal(<<StrVal(<<"a">>), StrVal(<<"b">>)>>),
              StrVal(<<"a">>), ListVal(<<IntVal(1)>>), DictVal(<< <<ColA, StrVal(<<"b">>)>> >>),
              IntVal(3)},
   rows_affected : {Absent, IntVal(2), IntVal(0), StrVal(<<"2">>), StrVal(<<"x">>), NoneVal}]

ParseOps == {"parse_ddl_response", "parse_dml_response", "parse_snowflake_operation_response"}

SnowflakeResponse_parse(op, response) ==
  CASE op = "parse_ddl_response" -> SnowflakeResponse_parse_ddl_response(response)
    [] op = "parse_dml_response" -> SnowflakeResponse_parse_dml_response(response)
    [] op = "parse_snowflake_operation_response" ->
         SnowflakeResponse_parse_snowflake_operation_response(response)

Unit_parse_response ==
  /\ unit = NoUnit
  /\ \E op \in ParseOps, response \in RawResponses :
       unit' = UnitCall("normalizer", op, [response |-> response], <<>>,
                        SnowflakeResponse_parse(op, response))
  /\ UNCHANGED <<environ, installed, pc, req, stack, trace, result, conns>>

NextUnit ==
  \/ Unit_execute_dml
  \/ Unit_select_data
  \/ Unit_insert_data
  \/ Unit_update_data
  \/ Unit_delete_data
  \/ Unit_merge_data
  \/ Unit_tool
  \/ Unit_parse_response

SpecUnit == InitUnit /\ [][NextUnit]_vars


(***************************************************************************)
(* Properties of the pipeline and of concurrent invocations (Spec).        *)
(***************************************************************************)
IsPrefix(s, t) == Len(s) <= Len(t) /\ SubSeq(t, 1, Len(s)) = s

Done(i) == pc[i] = "done"

\* The enter, tool and exit steps of an invocation, in the order they happened.
Steps(i) ==
  LET kept == SelectSeq(trace[i], LAMBDA o : o.ev \in {"enter", "exit", "tool"})
  IN  [k \in DOMAIN kept |->
         IF kept[k].ev = "tool" THEN <<"tool", "body">> ELSE <<kept[k].ev, kept[k].who>>]

OnionOrder ==
  << <<"enter", "Validation">>, <<"enter", "Security">>, <<"enter", "Logging">>,
     <<"enter", "Connection">>, <<"tool", "body">>, <<"exit", "Connection">>,
     <<"exit", "Logging">>, <<"exit", "Security">>, <<"exit", "Validation">> >>

\* C1: at every moment the steps an invocation has taken are an initial part
\* of: enter Validation, Security, Logging, Connection, the tool body, exit
\* Connection, Logging, Security, Validation; a finished invocation has taken
\* them all, whether its tool body returned or raised.
C1_OnionOrder ==
  \A i \in Invocations :
     /\ IsPrefix(Steps(i), OnionOrder)
     /\ Done(i) => Steps(i) = OnionOrder

C1_Witness ==
  \E i, j \in Invocations :
     /\ Done(i) /\ result[i].raised /\ Steps(i) = OnionOrder
     /\ Done(j) /\ ~result[j].raised /\ Steps(j) = OnionOrder

\* C2: once the tool body has raised, every interceptor's exit leaves that
\* very failure in place: no step of the pipeline changes a raised result.
C2_FailurePropagatesUnchanged ==
  [][\A i \in Invocations : result[i].raised => result'[i] = result[i]]_vars

C2_Witness ==
  \E i \in Invocations :
     /\ Done(i) /\ result[i].raised /\ result[i].exc.cls = "ToolError"
     /\ \E k \in DOMAIN trace[i] : trace[i][k].ev = "error" /\ trace[i][k].who = "Logging"

Executes(calls) == Len(SelectSeq(calls, LAMBDA c : c.op = "execute"))

RECURSIVE SumExecutes(_)
SumExecutes(cs) == IF cs = <<>> THEN 0 ELSE Executes(Head(cs).calls) + SumExecutes(Tail(cs))

Established(cs) == Len(SelectSeq(cs, LAMBDA c : c.established))

Occurrences(i, ev, who) ==
  Len(SelectSeq(trace[i], LAMBDA o : o.ev = ev /\ (ev = "tool" \/ o.who = who)))

ToolFinished(i) == pc[i] \in {"exiting", "done"}

\* C3: an invocation connects at most once and executes at most one
\* statement, exactly one when it succeeds; the tool body and every
\* interceptor run at most once, also after a failure.
C3_AtMostOnce ==
  \A i \in Invocations :
     /\ Len(conns[i]) <= 1
     /\ SumExecutes(conns[i]) <= 1
     /\ (ToolFinished(i) /\ ~result[i].raised) =>
           (Established(conns[i]) = 1 /\ SumExecutes(conns[i]) = 1)
     /\ Occurrences(i, "tool", "") <= 1
     /\ \A k \in DOMAIN Chain : Occurrences(i, "enter", Chain[k]) <= 1

C3_Witness ==
  \E i, j \in Invocations :
     /\ Done(i) /\ ~result[i].raised /\ SumExecutes(conns[i]) = 1
     /\ Done(j) /\ result[j].raised /\ SumExecutes(conns[j]) = 1

\* C4: when an invocation has finished, every connection it opened has been
\* closed.
C4_ConnectionReleased ==
  \A i \in Invocations :
     Done(i) => \A k \in DOMAIN conns[i] : ~conns[i][k].open

\* The statement a request's tool builds from the request alone.
StatementOf(r) ==
  CASE r.tool = "insert_data" ->
         insert_dml(r.table_name, [k \in DOMAIN r.data |-> r.data[k][1]],
                    [k \in DOMAIN r.data |-> r.data[k][2]])
    [] r.tool = "query_data" ->
         select_dml(r.table_name, r.columns, r.where_clause, <<>>, r.limit, <<>>)
    [] r.tool = "update_data" ->
         <<"UPDATE ">> \o r.table_name \o <<" SET ">> \o r.set_clause
            \o <<" WHERE ">> \o r.where_clause
    [] r.tool = "delete_data" -> delete_dml(r.table_name, r.where_clause)
    [] r.tool = "execute_dml_statement" -> r.dml_statement
    [] r.tool = "execute_ddl_statement" -> r.ddl_statement
    [] r.tool = "execute_sql_query" -> r.query
    [] r.tool = "merge_data" ->
         merge_not_matched(r.not_match_actions, 1,
           merge_matched(r.match_actions, 1,
             merge_header(r.target_table, r.source_table, r.merge_condition)).dml).dml

\* C5: under every interleaving, the calls made on a connection are all made
\* by the invocation that opened it, an invocation that executed a statement
\* did so on a connection it opened itself, and the statement is the one its
\* own request determines.
C5_NoSharedConnection ==
  \A i \in Invocations :
     /\ \A k \in DOMAIN conns[i] : \A c \in DOMAIN conns[i][k].calls :
           /\ conns[i][k].calls[c].by = i
           /\ conns[i][k].calls[c].op = "execute" => conns[i][k].calls[c].sql = StatementOf(req[i])
     /\ (ToolFinished(i) /\ ~result[i].raised) => Established(conns[i]) = 1

C5_Witness ==
  \E i, j \in Invocations :
     /\ i # j /\ pc[i] = "exiting" /\ pc[j] = "exiting"
     /\ SumExecutes(conns[i]) = 1 /\ SumExecutes(conns[j]) = 1
     /\ StatementOf(req[i]) # StatementOf(req[j])


(***************************************************************************)
(* Properties of the builders and tools called directly (SpecUnit).        *)
(***************************************************************************)
\* The number of dot-separated parts of a table name.
NumParts(name) == Count(name, ".") + 1

IsBuilder(op) == unit.kind = "builder" /\ unit.op = op

IsTool(op) == unit.kind = "tool" /\ unit.op = op

\* The statements handed to execute on the connections of the direct call.
RECURSIVE Statements(_)
Statements(attempts) ==
  IF attempts = <<>> THEN <<>>
  ELSE LET ex == SelectSeq(Head(attempts).calls, LAMBDA c : c.op = "execute")
       IN  [k \in DOMAIN ex |-> ex[k].sql] \o Statements(Tail(attempts))

OperationTag(op) ==
  CASE op = "select_data" -> "SELECT"
    [] op = "insert_data" -> "INSERT"
    [] op = "update_data" -> "UPDATE"
    [] op = "delete_data" -> "DELETE"
    [] op = "merge_data" -> "MERGE"

\* The builder raised a DMLException and made no call on the connection.
FailsUntouched ==
  /\ unit.out.raised /\ unit.out.exc.cls = "DMLException"
  /\ \A k \in DOMAIN unit.attempts : unit.attempts[k].calls = <<>>

\* C6: a builder operation (select, insert, update, delete, merge on its
\* target) called with a table name that does not have exactly 3
\* dot-separated parts raises a DMLException carrying that table name and
\* the operation's tag, and makes no call on the connection.
C6_TableNameValidated ==
  (/\ unit.kind = "builder"
   /\ unit.op \in {"select_data", "insert_data", "update_data", "delete_data", "merge_data"}
   /\ NumParts(unit.args.table_name) # 3)
     => /\ FailsUntouched
        /\ unit.out.exc.table_name = unit.args.table_name
        /\ unit.out.exc.operation = OperationTag(unit.op)

C6_Witness ==
  /\ IsBuilder("merge_data") /\ NumParts(unit.args.table_name) > 3
  /\ unit.out.raised /\ unit.out.exc.operation = "MERGE"
  /\ unit.out.exc.table_name = unit.args.table_name

\* The data-table name of a tool request.
TableOf(r) == IF r.tool = "merge_data" THEN r.target_table ELSE r.table_name

\* C7: a tool call (insert_data, query_data, update_data, delete_data,
\* merge_data) whose table name is not three-part qualified fails, and no
\* statement of it is executed.
C7_UnqualifiedToolCallFails ==
  (/\ unit.kind = "tool"
   /\ unit.op \in {"insert_data", "query_data", "update_data", "delete_data", "merge_data"}
   /\ NumParts(TableOf(unit.args)) # 3)
     => /\ unit.out.raised
        /\ Statements(unit.attempts) = <<>>

Mismatched(action) == Len(action.columns) # Len(action.values)

\* A matched UPDATE action or a not-matched INSERT action with lists of
\* different lengths.
HasMismatchedAction(match_actions, not_match_actions) ==
  \/ \E k \in DOMAIN match_actions :
        match_actions[k].action = "UPDATE" /\ Mismatched(match_actions[k])
  \/ \E k \in DOMAIN not_match_actions :
        not_match_actions[k].action = "INSERT" /\ Mismatched(not_match_actions[k])

\* C8: insert_data and update_data called with column and value lists of
\* different lengths, and merge_data called with a matched UPDATE or a
\* not-matched INSERT action whose lists differ in length, raise a
\* DMLException and make no call on the connection.
C8_LengthMismatchFailsEarly ==
  /\ (/\ unit.kind = "builder" /\ unit.op \in {"insert_data", "update_data"}
      /\ Len(unit.args.columns) # Len(unit.args.values)) => FailsUntouched
  /\ (/\ IsBuilder("merge_data")
      /\ HasMismatchedAction(unit.args.match_actions, unit.args.not_match_actions))
        => FailsUntouched

C8_Witness ==
  /\ IsBuilder("merge_data") /\ NumParts(unit.args.table_name) = 3
  /\ Len(unit.args.match_actions) = 2
  /\ \A k \in DOMAIN unit.args.match_actions : ~Mismatched(unit.args.match_actions[k])
  /\ \E k \in DOMAIN unit.args.not_match_actions :
        /\ unit.args.not_match_actions[k].action = "INSERT"
        /\ Mismatched(unit.args.not_match_actions[k])
  /\ unit.out.raised /\ unit.attempts[1].calls = <<>>

\* A where_clause that is empty or consists of spaces only.
Blank(w) == \A k \in DOMAIN w : w[k] = " "

\* C9: a delete_data call (tool or builder) with an empty or whitespace-only
\* where_clause fails and executes nothing; every statement a delete_data
\* call executes is DELETE FROM <table> followed by one WHERE clause that is
\* the non-blank where_clause given, on a three-part table; such a call on
\* the builder executes it, and a call that returns has executed it once.
C9_DeleteNeedsWhere ==
  (unit.kind \in {"builder", "tool"} /\ unit.op = "delete_data") =>
     LET w == unit.args.where_clause
         t == unit.args.table_name
         st == Statements(unit.attempts)
     IN  /\ Blank(w) => (unit.out.raised /\ st = <<>>)
         /\ \A k \in DOMAIN st :
               /\ ~Blank(w) /\ NumParts(t) = 3
               /\ st[k] = <<"\n        DELETE FROM ">> \o t
                             \o <<"\n        WHERE ">> \o w \o <<"\n        ">>
               /\ Count(st[k], "\n        WHERE ") = 1
         /\ (~Blank(w) /\ NumParts(t) = 3 /\ (unit.kind = "builder" \/ ~unit.out.raised))
               => Len(st) = 1

C9_Witness ==
  /\ IsTool("delete_data") /\ ~unit.out.raised
  /\ Len(unit.args.where_clause) = 2 /\ ~Blank(unit.args.where_clause)
  /\ \E k \in DOMAIN unit.args.where_clause : unit.args.where_clause[k] = " "
  /\ Len(Statements(unit.attempts)) = 1
  /\ Count(Statements(unit.attempts)[1], "\n        WHERE ") = 1

MatchedUpdateClause == "\nWHEN MATCHED THEN UPDATE SET "
MatchedDeleteClause == "\nWHEN MATCHED THEN DELETE"
NotMatchedInsertClause == "\nWHEN NOT MATCHED THEN INSERT ("

\* The WHEN clauses of a statement, in the order they stand in it.
Clauses(sql) ==
  SelectSeq(sql, LAMBDA p : p \in {MatchedUpdateClause, MatchedDeleteClause, NotMatchedInsertClause})

\* One clause per matched UPDATE or DELETE action, in list order, then one
\* per not-matched INSERT action, in list order.
ExpectedClauses(match_actions, not_match_actions) ==
  LET m == SelectSeq(match_actions, LAMBDA a : a.action \in {"UPDATE", "DELETE"})
      n == SelectSeq(not_match_actions, LAMBDA a : a.action = "INSERT")
  IN  [k \in DOMAIN m |-> IF m[k].action = "UPDATE" THEN MatchedUpdateClause
                          ELSE MatchedDeleteClause]
        \o [k \in DOMAIN n |-> NotMatchedInsertClause]

\* C10: the statement merge_data executes starts with the MERGE INTO ...
\* USING ... ON ... header and its WHEN clauses are exactly: one WHEN MATCHED
\* clause per matched action tagged UPDATE or DELETE, in list order, then
\* one WHEN NOT MATCHED THEN INSERT clause per not-matched action tagged
\* INSERT, in list order; a call with a three-part target and well-formed
\* actions executes such a statement.
C10_MergeClauses ==
  IsBuilder("merge_data") =>
     LET a == unit.args
         st == Statements(unit.attempts)
     IN  /\ \A k \in DOMAIN st :
               /\ IsPrefix(<<"\n        MERGE INTO ">> \o a.table_name \o <<" AS target">>
                             \o <<"\n        USING ">> \o a.source_table \o <<" AS source">>
                             \o <<"\n        ON ">> \o a.merge_condition, st[k])
               /\ Clauses(st[k]) = ExpectedClauses(a.match_actions, a.not_match_actions)
         /\ (NumParts(a.table_name) = 3
               /\ ~HasMismatchedAction(a.match_actions, a.not_match_actions))
               => Len(st) = 1

C10_Witness ==
  /\ IsBuilder("merge_data") /\ Len(Statements(unit.attempts)) = 1
  /\ Len(unit.args.match_actions) = 2
  /\ unit.args.match_actions[1].action = "DELETE"
  /\ unit.args.match_actions[2].action = "UPDATE"
  /\ Clauses(Statements(unit.attempts)[1])
       = <<MatchedDeleteClause, MatchedUpdateClause, NotMatchedInsertClause>>


(***************************************************************************)
(* Properties of the Security and Logging interceptors (Spec).             *)
(***************************************************************************)
RawSqlTools == {"execute_ddl_statement", "execute_dml_statement", "execute_sql_query"}

\* The SQL-bearing argument of a raw-SQL request.
SqlArgument(r) ==
  CASE r.tool = "execute_ddl_statement" -> r.ddl_statement
    [] r.tool = "execute_dml_statement" -> r.dml_statement
    [] r.tool = "execute_sql_query" -> r.query

\* Whether a text holds one of the sensitive phrases, in any letter case.
Sensitive(text) == \E phrase \in DANGEROUS_KEYWORDS : Contains(lower(text), phrase)

IsSecurityWarning(o) == o.ev = "warning" /\ o.who = "Security"

\* C11: when the tool body of a raw-SQL invocation (execute_ddl_statement,
\* execute_dml_statement, execute_sql_query) runs and the invocation's SQL
\* argument holds a sensitive phrase, the Security interceptor has emitted a
\* warning before it.
C11_SensitiveSqlWarned ==
  \A i \in Invocations :
     \A k \in DOMAIN trace[i] :
        (/\ trace[i][k].ev = "tool"
         /\ req[i].tool \in RawSqlTools
         /\ Sensitive(SqlArgument(req[i])))
           => \E j \in 1..(k - 1) : IsSecurityWarning(trace[i][j])

SecurityWarned(i) == \E k \in DOMAIN trace[i] : IsSecurityWarning(trace[i][k])

\* The step in which interceptor who of invocation i finishes.
Exits(i, who) ==
  /\ pc[i] = "exiting" /\ stack[i] # <<>> /\ stack[i][Len(stack[i])] = who
  /\ stack'[i] # stack[i]

\* C12: the Security interceptor forwards every invocation exactly once,
\* with or without a match (when it exits it was entered once and the tool
\* body ran once); its exit leaves the result or failure of the inner layer
\* as it is; and an invocation it warned about still executes its statement
\* on the connection it established.
C12_SecurityDetectionOnly ==
  /\ [](\A i \in Invocations :
          /\ Occurrences(i, "exit", "Security") = 1
               => (Occurrences(i, "enter", "Security") = 1 /\ Occurrences(i, "tool", "") = 1)
          /\ (ToolFinished(i) /\ SecurityWarned(i) /\ Established(conns[i]) = 1)
               => SumExecutes(conns[i]) = 1)
  /\ [][\A i \in Invocations : Exits(i, "Security") => result'[i] = result[i]]_vars

C12_Witness ==
  \E i \in Invocations :
     /\ Done(i) /\ SecurityWarned(i) /\ ~result[i].raised
     /\ SumExecutes(conns[i]) = 1 /\ Occurrences(i, "tool", "") = 1

\* The records of the Logging interceptor and the run of the tool body, in
\* the order they happened.
LoggingView(i) ==
  LET kept == SelectSeq(trace[i], LAMBDA o : o.ev = "tool"
                           \/ (o.who = "Logging" /\ o.ev \in {"info", "error"}))
  IN  [k \in DOMAIN kept |->
         CASE kept[k].ev = "tool" -> "tool"
           [] kept[k].ev = "error" -> "failure"
           [] kept[k].text = <<"started">> -> "start"
           [] OTHER -> "success"]

LoggingFailureTexts(i) ==
  SelectSeq(trace[i], LAMBDA o : o.who = "Logging" /\ o.ev = "error")

\* C13: the Logging interceptor emits a start record before the inner layer
\* runs and exactly one outcome record after it: a success record iff the
\* inner call returned, a failure record holding the failure's text iff it
\* raised; its exit leaves the result or the failure as it is.
C13_LoggingRecords ==
  /\ [](\A i \in Invocations :
          /\ \/ IsPrefix(LoggingView(i), <<"start", "tool", "success">>)
             \/ IsPrefix(LoggingView(i), <<"start", "tool", "failure">>)
          /\ Occurrences(i, "exit", "Logging") = 1 =>
               /\ Len(LoggingView(i)) = 3
               /\ (LoggingView(i)[3] = "failure") <=> result[i].raised
               /\ result[i].raised =>
                    Contains(LoggingFailureTexts(i)[1].text, exc_str(result[i].exc)))
  /\ [][\A i \in Invocations : Exits(i, "Logging") => result'[i] = result[i]]_vars

C13_Witness ==
  \E i, j \in Invocations :
     /\ Done(i) /\ result[i].raised /\ LoggingView(i) = <<"start", "tool", "failure">>
     /\ Contains(LoggingFailureTexts(i)[1].text, result[i].exc.message)
     /\ Done(j) /\ ~result[j].raised /\ LoggingView(j) = <<"start", "tool", "success">>

(***************************************************************************)
(* Properties of the response parsers (SpecUnit).                          *)
(***************************************************************************)
IsParse(op) == unit.kind = "normalizer" /\ unit.op = op

IsTextList(x) == x.t = "list" /\ \A k \in DOMAIN x.v : x.v[k].t = "str"

\* A response carrying success (bool), message (text), results (sequence of
\* text) and rows_affected (integer).
WellTypedDml(r) ==
  /\ r.success.t = "bool" /\ r.message.t = "str"
  /\ IsTextList(r.results) /\ r.rows_affected.t = "int"

\* C14: parse_dml_response of a well-typed response returns the JSON text of
\* an object with the fields success, message, results, rows_affected in
\* this order, each holding the input's value (results item by item in the
\* input's order); the text is determined by the input.
C14_DmlEnvelope ==
  (IsParse("parse_dml_response") /\ WellTypedDml(unit.args.response)) =>
     LET r == unit.args.response
     IN  /\ ~unit.out.raised
         /\ unit.out.value =
              <<"{", "\"success\":">> \o (IF r.success.v THEN <<"true">> ELSE <<"false">>)
                 \o <<",", "\"message\":">> \o json_str(r.message.v)
                 \o <<",", "\"results\":", "[">>
                 \o join(<<",">>, [k \in DOMAIN r.results.v |-> json_str(r.results.v[k].v)])
                 \o <<"]", ",", "\"rows_affected\":">> \o IntText(r.rows_affected.v)
                 \o <<"}">>

C14_Witness ==
  /\ IsParse("parse_dml_response") /\ WellTypedDml(unit.args.response)
  /\ unit.args.response.success = BoolVal(TRUE)
  /\ Len(unit.args.response.results.v) = 2
  /\ unit.args.response.rows_affected = IntVal(2)
  /\ unit.out.value =
       << "{", "\"success\":", "true", ",", "\"message\":", "\"", "o", "k", "\"", ",",
          "\"results\":", "[", "\"", "a", "\"", ",", "\"", "b", "\"", "]", ",",
          "\"rows_affected\":", "2", "}" >>

\* A key the shape requires is absent from the response.
MissingRequired(op, r) ==
  \/ r.success = Absent \/ r.message = Absent
  \/ (op # "parse_snowflake_operation_response" /\ r.results = Absent)
  \/ (op = "parse_dml_response" /\ r.rows_affected = Absent)

\* A key the shape declares holds a value of another basic type.
WrongType(op, r) ==
  \/ r.success.t \notin {"absent", "bool"}
  \/ r.message.t \notin {"absent", "str"}
  \/ (op # "parse_snowflake_operation_response" /\ r.results # Absent /\ ~IsTextList(r.results))
  \/ (op = "parse_snowflake_operation_response"
        /\ r.results.t \notin {"absent", "none", "dict", "list", "str"})
  \/ (op = "parse_dml_response" /\ r.rows_affected.t \notin {"absent", "int"})

\* C15: each of the three parsers fails when the response lacks a key its
\* shape requires or holds a value of the wrong basic type under a key its
\* shape declares.
C15_NormalizationFails ==
  (unit.kind = "normalizer"
     /\ (MissingRequired(unit.op, unit.args.response) \/ WrongType(unit.op, unit.args.response)))
     => unit.out.raised

(***************************************************************************)
(* Properties of the value formatting (SpecUnit).                          *)
(***************************************************************************)
BoolLiteral(val) == IF val.v THEN <<"TRUE">> ELSE <<"FALSE">>

RECURSIVE ActionValues(_, _)
ActionValues(actions, tag) ==
  IF actions = <<>> THEN {}
  ELSE (IF Head(actions).action = tag
        THEN {Head(actions).values[k] : k \in DOMAIN Head(actions).values}
        ELSE {}) \cup ActionValues(Tail(actions), tag)

\* The values a builder call formats as literals.
FormattedValues ==
  IF unit.op = "merge_data"
  THEN ActionValues(unit.args.match_actions, "UPDATE")
         \cup ActionValues(unit.args.not_match_actions, "INSERT")
  ELSE {unit.args.values[k] : k \in DOMAIN unit.args.values}

\* C16: in the statement insert_data, update_data or merge_data executes,
\* every boolean value stands as the literal TRUE or FALSE, not as any other
\* text.
C16_BooleanLiteral ==
  (unit.kind = "builder" /\ unit.op \in {"insert_data", "update_data", "merge_data"}) =>
     \A k \in DOMAIN Statements(unit.attempts) :
        \A val \in FormattedValues :
           val.t = "bool" => Contains(Statements(unit.attempts)[k], BoolLiteral(val))

Quote == "'"

\* The statement insert_data lays out: each clause on a line of its own.
InsertLayout(table_name, columns, literals) ==
  <<"\n        INSERT INTO ">> \o table_name \o <<" (">> \o join(<<", ">>, columns) \o <<")">>
     \o <<"\n        VALUES (">> \o join(<<", ">>, literals) \o <<")">> \o <<"\n        ">>

\* The statement on one line, with single spaces.
InsertOneLine(table_name, columns, literals) ==
  <<"INSERT INTO ">> \o table_name \o <<" (">> \o join(<<", ">>, columns) \o <<")">>
     \o <<" VALUES (">> \o join(<<", ">>, literals) \o <<")">>

\* The literal expected of a value: a text between quotes with its content
\* as it is, NULL for null, the decimal text of a number; for a boolean the
\* text the builder gives it.
ExpectedLiteral(val) ==
  CASE val.t = "str" -> <<Quote>> \o val.v \o <<Quote>>
    [] val.t = "none" -> <<"NULL">>
    [] val.t = "int" -> IntText(val.v)
    [] val.t = "float" -> IntText(val.w) \o <<".">> \o NatText(val.f)
    [] val.t = "bool" -> insert_format(val)

\* The columns and values of an insert: the builder's arguments, or the keys
\* and values of the tool's data mapping in the mapping's order.
InsertColumns ==
  IF unit.kind = "tool" THEN [k \in DOMAIN unit.args.data |-> unit.args.data[k][1]]
  ELSE unit.args.columns

InsertValues ==
  IF unit.kind = "tool" THEN [k \in DOMAIN unit.args.data |-> unit.args.data[k][2]]
  ELSE unit.args.values

\* C17: the statement an insert (builder or tool) executes holds, in the
\* order given, a text value as quote + content + quote with embedded quotes
\* left as they are, NULL for null and the decimal text for a number, and no
\* quote around a null, boolean or numeric value; the statement is laid out
\* as INSERT INTO <table> (<columns>) / VALUES (<literals>) with each clause
\* on its own indented line.
C17_InsertLiterals ==
  (unit.kind \in {"builder", "tool"} /\ unit.op = "insert_data") =>
     \A k \in DOMAIN Statements(unit.attempts) :
        /\ Statements(unit.attempts)[k] =
             InsertLayout(unit.args.table_name, InsertColumns,
                          [j \in DOMAIN InsertValues |-> ExpectedLiteral(InsertValues[j])])
        /\ \A j \in DOMAIN InsertValues :
              InsertValues[j].t # "str" => Count(insert_format(InsertValues[j]), Quote) = 0

C17_Witness ==
  /\ IsTool("insert_data") /\ ~unit.out.raised
  /\ unit.args.data = << <<ColId, IntVal(1)>>, <<ColName, StrVal(QuotedName)>> >>
  /\ Statements(unit.attempts) =
       << <<"\n        INSERT INTO ">> \o unit.args.table_name
            \o <<" (", "i", "d", ", ", "n", "a", "m", "e", ")", "\n        VALUES (",
                 "1", ", ", "'", "J", "o", "'", "h", "n", "'", ")", "\n        ">> >>

\* C17 as stated: the statement is the one-line text INSERT INTO <table>
\* (<columns>) VALUES (<literals>).
C17_InsertOneLine ==
  (unit.kind \in {"builder", "tool"} /\ unit.op = "insert_data") =>
     \A k \in DOMAIN Statements(unit.attempts) :
        Statements(unit.attempts)[k] =
          InsertOneLine(unit.args.table_name, InsertColumns,
                        [j \in DOMAIN InsertValues |-> ExpectedLiteral(InsertValues[j])])

(***************************************************************************)
(* Properties of the credentials check and of the tools' failures          *)
(* (SpecUnit).                                                             *)
(***************************************************************************)
CredentialItems == {"account", "user", "secret"}

\* Whether a credential is absent: not set in the environment (the tools
\* give no other); the secret is SNOWFLAKE_PAT or else SNOWFLAKE_PASSWORD.
IsAbsent(item) ==
  CASE item = "account" -> environ.SNOWFLAKE_ACCOUNT = <<>>
    [] item = "user" -> environ.SNOWFLAKE_USER = <<>>
    [] item = "secret" -> environ.SNOWFLAKE_PAT = <<>> /\ environ.SNOWFLAKE_PASSWORD = <<>>

\* The names under which a failure text lists a credential.
NamesOf(item) ==
  CASE item = "account" -> {"SNOWFLAKE_ACCOUNT", MissingAccount}
    [] item = "user" -> {"SNOWFLAKE_USER", MissingUser}
    [] item = "secret" -> {"SNOWFLAKE_PAT/SNOWFLAKE_PASSWORD", MissingPassword}

Lists(text, item) == \E k \in DOMAIN text : text[k] \in NamesOf(item)

\* C18: a tool call made while some of the three credentials are absent
\* raises, the driver's connect is not called, and the failure text lists
\* exactly the absent credentials.
C18_MissingCredentialsListed ==
  (unit.kind = "tool" /\ \E item \in CredentialItems : IsAbsent(item)) =>
     /\ unit.out.raised
     /\ unit.attempts = <<>>
     /\ (\E item \in CredentialItems : Lists(unit.out.exc.message, item))
           => \A item \in CredentialItems :
                 Lists(unit.out.exc.message, item) <=> IsAbsent(item)

\* A step of the invocation failed: the credentials are missing, the driver
\* is not installed, connect failed, or a call on the cursor failed.
FailureOccurred ==
  \/ \E item \in CredentialItems : IsAbsent(item)
  \/ ~installed
  \/ \E k \in DOMAIN unit.attempts :
        \/ ~unit.attempts[k].established
        \/ unit.attempts[k].calls = <<>>
        \/ unit.attempts[k].calls[Len(unit.attempts[k].calls)].op # "fetchall"

\* C19: a tool call during which a step failed ends by raising a ToolError.
C19_FailuresRaiseToolError ==
  (unit.kind = "tool" /\ FailureOccurred) =>
     (unit.out.raised /\ unit.out.exc.cls = "ToolError")

(***************************************************************************)
(* Properties of DMLManager.execute_dml (SpecUnit).                        *)
(***************************************************************************)
\* C20: execute_dml either raises a DMLException tagged EXECUTE that carries
\* the statement and the driver's message, when cursor, execute or fetchall
\* fails, or returns a result with success = TRUE, the fixed message, the
\* text of each fetched row in fetch order and the driver's row count; it
\* returns no result with success = FALSE.
C20_ExecuteTwoOutcomes ==
  IsBuilder("execute_dml") =>
     LET dml == unit.args.dml
         drv == unit.args.drv
         out == unit.out
     IN  /\ drv.fail # "none" =>
              /\ out.raised /\ out.exc.cls = "DMLException"
              /\ out.exc.operation = "EXECUTE"
              /\ out.exc.table_name = dml
              /\ out.exc.message = <<"Error executing DML: ">> \o DriverMsg
         /\ drv.fail = "none" =>
              /\ ~out.raised
              /\ out.value.message = <<"DML operation executed successfully">>
              /\ Len(out.value.results) = Len(drv.rows)
              /\ \A k \in DOMAIN drv.rows : out.value.results[k] = row_str(drv.rows[k])
              /\ out.value.rows_affected = drv.rowcount
              /\ Statements(unit.attempts) = <<dml>>
         /\ ~out.raised => out.value.success = TRUE

C20_Witness ==
  /\ IsBuilder("execute_dml") /\ unit.args.drv.fail = "fetchall"
  /\ unit.out.raised /\ unit.out.exc.operation = "EXECUTE"
  /\ unit.out.exc.table_name = unit.args.dml /\ unit.args.dml # <<>>
(***************************************************************************)
(* Properties of the statement builders and of a tool invocation as a      *)
(* whole (SpecUnit).                                                       *)
(***************************************************************************)
\* The keywords of the optional clauses of a SELECT, in the order the
\* statement holds them.
SelectKeywords(sql) ==
  SelectSeq(sql, LAMBDA p : p \in {" WHERE ", " ORDER BY ", " LIMIT ", " OFFSET "})

\* The keywords of the clauses whose parameter is supplied: a text or a list
\* that is not empty, a number that is given (0 included).
SuppliedKeywords(where_clause, order_by, limit, offset) ==
  (IF where_clause # <<>> THEN <<" WHERE ">> ELSE <<>>)
    \o (IF order_by # <<>> THEN <<" ORDER BY ">> ELSE <<>>)
    \o (IF Len(limit) = 1 THEN <<" LIMIT ">> ELSE <<>>)
    \o (IF Len(offset) = 1 THEN <<" OFFSET ">> ELSE <<>>)

\* The text that follows the first occurrence of a keyword, up to the next
\* keyword or the end of the statement.
ClauseBody(sql, keyword) ==
  LET at == CHOOSE k \in DOMAIN sql : sql[k] = keyword /\ \A j \in 1..(k - 1) : sql[j] # keyword
      stops == {j \in (at + 1)..Len(sql) :
                  sql[j] \in {" WHERE ", " ORDER BY ", " LIMIT ", " OFFSET "}}
      end == IF stops = {} THEN Len(sql) + 1 ELSE CHOOSE j \in stops : \A i \in stops : j <= i
  IN  SubSeq(sql, at + 1, end - 1)

\* A statement is a well-formed SELECT for the given parameters.
IsSelectFor(sql, table_name, columns, where_clause, order_by, limit, offset) ==
  /\ IsPrefix(<<"SELECT ">> \o (IF columns = <<>> THEN <<"*">> ELSE join(<<", ">>, columns))
                \o <<" FROM ">> \o table_name, sql)
  /\ SelectKeywords(sql) = SuppliedKeywords(where_clause, order_by, limit, offset)
  /\ where_clause # <<>> => ClauseBody(sql, " WHERE ") = where_clause
  /\ order_by # <<>> => ClauseBody(sql, " ORDER BY ") = join(<<", ">>, order_by)
  /\ Len(limit) = 1 => ClauseBody(sql, " LIMIT ") = IntText(limit[1])
  /\ Len(offset) = 1 => ClauseBody(sql, " OFFSET ") = IntText(offset[1])
  /\ SuppliedKeywords(where_clause, order_by, limit, offset) = <<>> =>
       sql = <<"SELECT ">> \o (IF columns = <<>> THEN <<"*">> ELSE join(<<", ">>, columns))
                \o <<" FROM ">> \o table_name

\* C21: every statement select_data executes is SELECT <the columns joined
\* by ", ", or * when there are none> FROM <table> followed by the clauses
\* WHERE, ORDER BY, LIMIT, OFFSET in that order, each present exactly when
\* its parameter is supplied (a limit or offset of 0 gives its clause) and
\* holding the parameter's text; a call on a three-part table hands one such
\* statement to execute; query_data passes its columns, where_clause and
\* limit and supplies neither order_by nor offset.
C21_SelectClauses ==
  /\ IsBuilder("select_data") =>
       LET a == unit.args
           st == Statements(unit.attempts)
       IN  /\ \A k \in DOMAIN st :
                 IsSelectFor(st[k], a.table_name, a.columns, a.where_clause,
                             a.order_by, a.limit, a.offset)
           /\ NumParts(a.table_name) = 3 => Len(st) = 1
  /\ IsTool("query_data") =>
       LET a == unit.args
           st == Statements(unit.attempts)
       IN  \A k \in DOMAIN st :
              IsSelectFor(st[k], a.table_name, a.columns, a.where_clause, <<>>, a.limit, <<>>)

C21_Witness ==
  /\ IsBuilder("select_data") /\ Len(Statements(unit.attempts)) = 1
  /\ unit.args.columns # <<>> /\ unit.args.where_clause # <<>> /\ unit.args.order_by # <<>>
  /\ unit.args.limit = <<0>> /\ unit.args.offset = <<0>>
  /\ SelectKeywords(Statements(unit.attempts)[1]) = <<" WHERE ", " ORDER BY ", " LIMIT ", " OFFSET ">>
\* C22: update_data does not require a WHERE condition.  The builder called
\* with an empty or blank where_clause, a three-part table and lists of equal
\* length raises no rejection of its own and hands exactly one UPDATE
\* statement with that where_clause to execute; the update_data tool called
\* with an empty or blank where_clause calls connect whenever the
\* credentials are set and the driver is installed, and executes exactly one
\* UPDATE statement with that where_clause whenever the connection is
\* established, unless the connection gave no cursor.
C22_UpdateWhereNotEnforced ==
  /\ (/\ IsBuilder("update_data") /\ Blank(unit.args.where_clause)
      /\ NumParts(unit.args.table_name) = 3
      /\ Len(unit.args.columns) = Len(unit.args.values))
       => LET st == Statements(unit.attempts)
          IN  /\ Len(st) = 1
              /\ IsPrefix(<<"\n        UPDATE ">> \o unit.args.table_name \o <<"\n        SET ">>, st[1])
              /\ SubSeq(st[1], Len(st[1]) - Len(unit.args.where_clause) - 1, Len(st[1]))
                   = <<"\n        WHERE ">> \o unit.args.where_clause \o <<"\n        ">>
              /\ unit.out.raised => unit.out.exc.operation = "EXECUTE"
  /\ (IsTool("update_data") /\ Blank(unit.args.where_clause))
       => LET st == Statements(unit.attempts)
          IN  /\ (environ = FullEnv /\ installed) => Len(unit.attempts) = 1
              /\ (/\ unit.attempts # <<>> /\ unit.attempts[1].established
                  /\ unit.attempts[1].calls # <<ConnCall("cursor", <<>>)>>)
                   => /\ Len(st) = 1
                      /\ st[1] = <<"UPDATE ">> \o unit.args.table_name \o <<" SET ">>
                                   \o unit.args.set_clause \o <<" WHERE ">>
                                   \o unit.args.where_clause

C22_Witness ==
  /\ IsTool("update_data") /\ unit.args.where_clause = <<" ">>
  /\ NumParts(unit.args.table_name) = 3
  /\ ~unit.out.raised
  /\ Len(Statements(unit.attempts)) = 1
\* The actions of a list that merge_data recognises.
Recognised(actions, tags) == SelectSeq(actions, LAMBDA a : a.action \in tags)

\* C23: merge_data ignores an action whose tag it does not recognise (a
\* matched action other than UPDATE or DELETE, a not-matched action other
\* than INSERT).  Called on a three-part target with actions of which some
\* are unrecognised and none is a recognised action with lists of different
\* lengths, it raises no failure of its own and hands exactly one statement
\* to execute; that statement is the header followed by the clauses of the
\* recognised actions alone, character for character, and it is the bare
\* header without any WHEN clause when no action is recognised.
C23_UnknownActionIgnored ==
  (/\ IsBuilder("merge_data") /\ NumParts(unit.args.table_name) = 3
   /\ ~HasMismatchedAction(unit.args.match_actions, unit.args.not_match_actions)
   /\ \/ Recognised(unit.args.match_actions, {"UPDATE", "DELETE"}) # unit.args.match_actions
      \/ Recognised(unit.args.not_match_actions, {"INSERT"}) # unit.args.not_match_actions)
    => LET a == unit.args
           st == Statements(unit.attempts)
           m == Recognised(a.match_actions, {"UPDATE", "DELETE"})
           n == Recognised(a.not_match_actions, {"INSERT"})
           header == <<"\n        MERGE INTO ">> \o a.table_name \o <<" AS target">>
                       \o <<"\n        USING ">> \o a.source_table \o <<" AS source">>
                       \o <<"\n        ON ">> \o a.merge_condition \o <<"\n        ">>
       IN  /\ Len(st) = 1
           /\ unit.out.raised => unit.out.exc.operation = "EXECUTE"
           /\ st[1] = StatementOf(MergeReq(a.table_name, a.source_table, a.merge_condition, m, n))
           /\ IsPrefix(header, st[1])
           /\ Len(Clauses(st[1])) = Len(m) + Len(n)
           /\ (m = <<>> /\ n = <<>>) => st[1] = header

C23_Witness ==
  /\ IsBuilder("merge_data") /\ ~unit.out.raised
  /\ unit.args.match_actions # <<>> /\ unit.args.not_match_actions # <<>>
  /\ Recognised(unit.args.match_actions, {"UPDATE", "DELETE"}) = <<>>
  /\ Recognised(unit.args.not_match_actions, {"INSERT"}) = <<>>
  /\ Len(Statements(unit.attempts)) = 1
  /\ Clauses(Statements(unit.attempts)[1]) = <<>>
\* C24: merge_data called with an empty list of matched actions raises a
\* DMLException and makes no call on the connection.
C24_EmptyMatchedFails ==
  (IsBuilder("merge_data") /\ unit.args.match_actions = <<>>) => FailsUntouched
\* C25: a merge whose source table name does not have exactly 3
\* dot-separated parts (the target being well formed) fails before anything
\* is executed: the builder raises a DMLException carrying the source table
\* and the tag MERGE and makes no call on the connection, and the merge_data
\* tool fails without executing a statement.
C25_SourceTableValidated ==
  /\ (/\ IsBuilder("merge_data") /\ NumParts(unit.args.table_name) = 3
      /\ NumParts(unit.args.source_table) # 3)
       => /\ FailsUntouched
          /\ unit.out.exc.table_name = unit.args.source_table
          /\ unit.out.exc.operation = "MERGE"
  /\ (/\ IsTool("merge_data") /\ NumParts(unit.args.target_table) = 3
      /\ NumParts(unit.args.source_table) # 3)
       => (unit.out.raised /\ Statements(unit.attempts) = <<>>)
\* A piece of statement text that holds an assignment sign together with
\* what follows it, as its parts.
AssignParts(p) ==
  CASE p = " = NULL" -> <<" = ", "NULL">>
    [] p = " = '" -> <<" = ", Quote>>
    [] OTHER -> <<p>>

\* A statement with every assignment sign as a piece of its own.
RECURSIVE AsText(_)
AsText(sql) == IF sql = <<>> THEN <<>> ELSE AssignParts(Head(sql)) \o AsText(Tail(sql))

\* The concatenation of a sequence of texts.
RECURSIVE Flat(_)
Flat(texts) == IF texts = <<>> THEN <<>> ELSE Head(texts) \o Flat(Tail(texts))

\* col = literal for each column, joined by ", ", the literal being the one
\* the VALUES list of an insert holds for the value.
Assignments(columns, values) ==
  join(<<", ">>, [k \in DOMAIN columns |-> columns[k] \o <<" = ">> \o insert_format(values[k])])

\* The literal on the right of a single  col = literal  clause.
RightHandSide(clause, col) == SubSeq(AsText(clause), Len(col) + 2, Len(AsText(clause)))

\* C26: one formatting policy.  For every value (null, boolean, integer,
\* float, text) the literal is the same text in the VALUES list of an
\* insert, on the right of a SET clause of an update, on the right of a SET
\* clause of a WHEN MATCHED UPDATE and in the VALUES list of a WHEN NOT
\* MATCHED INSERT; and the statement update_data or merge_data executes
\* holds, for each value it formats, the literal insert_data gives it.
C26_OneFormattingPolicy ==
  /\ \A v \in Values, col \in {ColA, ColName} :
        /\ merge_insert_format(v) = insert_format(v)
        /\ RightHandSide(update_set_clause(col, v), col) = insert_format(v)
        /\ RightHandSide(merge_set_clause(col, v), col) = insert_format(v)
  /\ IsBuilder("update_data") =>
       \A k \in DOMAIN Statements(unit.attempts) :
          AsText(Statements(unit.attempts)[k]) =
            <<"\n        UPDATE ">> \o unit.args.table_name \o <<"\n        SET ">>
               \o Assignments(unit.args.columns, unit.args.values)
               \o <<"\n        WHERE ">> \o unit.args.where_clause \o <<"\n        ">>
  /\ IsBuilder("merge_data") =>
       LET a == unit.args
           m == Recognised(a.match_actions, {"UPDATE", "DELETE"})
           n == Recognised(a.not_match_actions, {"INSERT"})
       IN  \A k \in DOMAIN Statements(unit.attempts) :
              AsText(Statements(unit.attempts)[k]) =
                <<"\n        MERGE INTO ">> \o a.table_name \o <<" AS target">>
                  \o <<"\n        USING ">> \o a.source_table \o <<" AS source">>
                  \o <<"\n        ON ">> \o a.merge_condition \o <<"\n        ">>
                  \o Flat([j \in DOMAIN m |->
                       IF m[j].action = "DELETE" THEN <<MatchedDeleteClause>>
                       ELSE <<MatchedUpdateClause>> \o Assignments(m[j].columns, m[j].values)])
                  \o Flat([j \in DOMAIN n |->
                       <<NotMatchedInsertClause>> \o join(<<", ">>, n[j].columns)
                         \o <<") VALUES (">>
                         \o join(<<", ">>, [i \in DOMAIN n[j].values |-> insert_format(n[j].values[i])])
                         \o <<")">>])

C26_Witness ==
  /\ IsBuilder("merge_data") /\ Len(Statements(unit.attempts)) = 1
  /\ BoolVal(FALSE) \in ActionValues(unit.args.match_actions, "UPDATE")
  /\ StrVal(QuotedName) \in ActionValues(unit.args.not_match_actions, "INSERT")
  /\ Contains(AsText(Statements(unit.attempts)[1]), <<" = ">> \o insert_format(BoolVal(FALSE)))
  /\ Contains(Statements(unit.attempts)[1], insert_format(StrVal(QuotedName)))
DmlTools ==
  {"insert_data", "query_data", "update_data", "delete_data", "execute_dml_statement",
   "merge_data"}

\* The tools that hand the raw result to parse_dml_response.
ParsingTools == {"insert_data", "query_data", "execute_dml_statement", "merge_data"}

\* The credentials the tools read are all set.
CredentialsSet ==
  /\ environ.SNOWFLAKE_ACCOUNT # <<>> /\ environ.SNOWFLAKE_USER # <<>>
  /\ (environ.SNOWFLAKE_PAT # <<>> \/ environ.SNOWFLAKE_PASSWORD # <<>>)

\* C27: no partial success.  Whatever the driver does, the DML tool called
\* with the request at hand returns a text only if its one connection was
\* established, exactly one statement was executed on it and neither
\* cursor, execute nor fetchall raised; and it ends in a ToolError, with no
\* text returned, whenever the credentials are missing, the driver is not
\* installed, connect fails, a call on the cursor raises, or the raw result
\* of a tool that normalizes it has no integer row count.  The call that was
\* made ended in exactly one of the two ways.
C27_NoPartialSuccess ==
  (unit.kind = "tool" /\ unit.op \in DmlTools) =>
     /\ unit.out.raised => (unit.out.exc.cls = "ToolError" /\ unit.out.value = <<>>)
     /\ ~unit.out.raised =>
          /\ Len(unit.attempts) = 1 /\ unit.attempts[1].established
          /\ Executes(unit.attempts[1].calls) = 1
          /\ unit.out.value # <<>>
     /\ \A ch \in Choices :
          LET t == call_tool(unit.args, environ, installed, ch)
          IN  /\ ~t.out.raised =>
                   /\ Len(t.attempts) = 1 /\ t.attempts[1].established
                   /\ Len(Statements(t.attempts)) = 1
                   /\ ch.connect_ok /\ ch.drv.fail = "none"
              /\ (\/ ~CredentialsSet \/ ~installed \/ ~ch.connect_ok
                  \/ ch.drv.fail # "none"
                  \/ (unit.op \in ParsingTools /\ ch.drv.rowcount = <<>>))
                   => (t.out.raised /\ t.out.exc.cls = "ToolError" /\ t.out.value = <<>>)

C27_Witness ==
  /\ IsTool("insert_data") /\ ~unit.out.raised
  /\ Len(unit.attempts) = 1 /\ Executes(unit.attempts[1].calls) = 1
  /\ \E ch \in Choices :
        /\ ch.connect_ok /\ ch.drv.fail = "none" /\ ch.drv.rowcount = <<>>
        /\ call_tool(unit.args, environ, installed, ch).out.raised
        /\ Executes(call_tool(unit.args, environ, installed, ch).attempts[1].calls) = 1
\* The argument checks a DML tool makes itself reject the request.
ArgumentsRejected(r) ==
  CASE r.tool = "insert_data" -> Blank(r.table_name) \/ r.data = <<>>
    [] r.tool = "delete_data" -> Blank(r.where_clause)
    [] r.tool = "execute_dml_statement" -> Blank(r.dml_statement)
    [] r.tool = "merge_data" ->
         \/ Blank(r.target_table) \/ Blank(r.source_table) \/ Blank(r.merge_condition)
         \/ r.match_actions = <<>>
    [] OTHER -> FALSE

ConnectionFailedText == "Failed to establish connection: "

\* No call was made on any connection of the direct call.
NothingExecuted == \A k \in DOMAIN unit.attempts : unit.attempts[k].calls = <<>>

RejectionMessage(r) ==
  CASE r.tool = "insert_data" ->
         IF Blank(r.table_name) THEN "Table name cannot be empty"
         ELSE "Data must be a non-empty dictionary"
    [] r.tool = "delete_data" ->
         "WHERE clause is required for DELETE operations to prevent accidental data loss"
    [] r.tool = "execute_dml_statement" -> "DML statement cannot be empty"
    [] r.tool = "merge_data" ->
         IF Blank(r.target_table) THEN "Target table name cannot be empty"
         ELSE IF Blank(r.source_table) THEN "Source table name cannot be empty"
         ELSE IF Blank(r.merge_condition) THEN "Merge condition cannot be empty"
         ELSE "At least one match action is required"

\* C29: the argument checks of a DML tool are terminal and come first.  A
\* call of insert_data with an empty or blank table name or empty data, of
\* delete_data with an empty or blank where_clause, of
\* execute_dml_statement with an empty or blank statement, or of merge_data
\* with an empty or blank target, source or condition or an empty
\* match_actions ends in a ToolError that holds the message of that check
\* and not the one of the credentials check, also when credentials are
\* missing; connect is never called and nothing is executed; and the outcome
\* is the same whatever the environment holds, whether or not the driver is
\* installed and whatever the driver would do.
C29_ArgumentChecksFirst ==
  (unit.kind = "tool" /\ unit.op \in DmlTools /\ ArgumentsRejected(unit.args)) =>
     /\ unit.out.raised /\ unit.out.exc.cls = "ToolError"
     /\ unit.attempts = <<>>
     /\ Contains(unit.out.exc.message, <<RejectionMessage(unit.args)>>)
     /\ ~Contains(unit.out.exc.message, <<"Missing required Snowflake credentials: ">>)
     /\ \A env \in Environs, inst \in BOOLEAN, ch \in Choices :
           call_tool(unit.args, env, inst, ch) = ToolOut(<<>>, unit.out)

C29_Witness ==
  /\ IsTool("merge_data") /\ ~CredentialsSet
  /\ ~Blank(unit.args.target_table) /\ ~Blank(unit.args.source_table)
  /\ ~Blank(unit.args.merge_condition) /\ unit.args.match_actions = <<>>
  /\ unit.out.raised /\ unit.attempts = <<>>
  /\ Contains(unit.out.exc.message, <<"At least one match action is required">>)
\* C30: every raw result a successful execute_dml returns has an integer
\* rows_affected and is accepted by parse_dml_response, and a call of a tool
\* that normalizes its raw result does not fail once its statement was
\* executed and neither execute nor fetchall raised, whatever row count the
\* driver reports.
C30_RawResultNormalizes ==
  /\ (IsBuilder("execute_dml") /\ ~unit.out.raised) =>
        /\ Len(unit.out.value.rows_affected) = 1
        /\ ~parse_dml_response(unit.out.value).raised
  /\ (unit.kind = "tool" /\ unit.op \in ParsingTools) =>
        \A ch \in Choices :
           LET t == call_tool(unit.args, environ, installed, ch)
           IN  (/\ t.attempts # <<>> /\ Executes(t.attempts[1].calls) = 1
                /\ ch.drv.fail = "none") => ~t.out.raised


====
